---------------------------- MODULE Spec2Model ----------------------------
(***************************************************************************)
(* GitHub Actions cost analyzer (lib/commands/analyze-ci): the estimators  *)
(* of workflow duration and run frequency, the cost calculator and the     *)
(* optimization detectors, as functions applied to bounded inputs.         *)
(*                                                                         *)
(* JavaScript strings are sequences of one-character strings; JavaScript   *)
(* numbers are exact rationals <<numerator, denominator>> (denominator >   *)
(* 0) or the value NaN.                                                    *)
(***************************************************************************)
EXTENDS Integers, Sequences, FiniteSets, TLC

VARIABLES pc, fn, args, ret

vars == <<pc, fn, args, ret>>

(***************************************************************************)
(* Bounds of the model.                                                    *)
(***************************************************************************)
MaxFieldLen == 4

(***************************************************************************)
(* Program constants.                                                      *)
(***************************************************************************)
DAYS_PER_MONTH == 30
DEFAULT_MANUAL_RUNS_PER_MONTH == 1
DEFAULT_RELEASE_RUNS_PER_MONTH == 1
\* 0.8
DEFAULT_PULL_REQUEST_FACTOR == <<8, 10>>

(***************************************************************************)
(* Numbers.                                                                *)
(***************************************************************************)
NaN == <<0, 0>>

IsNaN(x) == x[2] = 0

IsFinite(x) == x[2] > 0

R(n) == <<n, 1>>

RAdd(x, y) == <<x[1] * y[2] + y[1] * x[2], x[2] * y[2]>>

RSub(x, y) == <<x[1] * y[2] - y[1] * x[2], x[2] * y[2]>>

RMul(x, y) == <<x[1] * y[1], x[2] * y[2]>>

\* x / y for y > 0
RDiv(x, y) == <<x[1] * y[2], x[2] * y[1]>>

RLt(x, y) == x[1] * y[2] < y[1] * x[2]

RLe(x, y) == x[1] * y[2] <= y[1] * x[2]

REq(x, y) == x[1] * y[2] = y[1] * x[2]

RMax(x, y) == IF RLt(x, y) THEN y ELSE x

\* Math.ceil, as an integer
CeilInt(x) == -((-x[1]) \div x[2])

RCeil(x) == R(CeilInt(x))

IsInteger(x) == IsFinite(x) /\ x[1] % x[2] = 0

(***************************************************************************)
(* Binary floating point, where a product is not exact: a double is a      *)
(* significand of at most 53 bits, written lowest bit first without        *)
(* leading zeros, and a power of two; its value is significand * 2^exp.    *)
(* Only what the program needs is modelled: the product of a double and a  *)
(* natural number, rounded to nearest with ties to even, and Math.ceil.    *)
(***************************************************************************)
SIGNIFICAND_BITS == 53

RECURSIVE NatBits(_)
NatBits(n) == IF n = 0 THEN <<>> ELSE << n % 2 >> \o NatBits(n \div 2)

RECURSIVE BitsNat(_)
BitsNat(bits) == IF bits = <<>> THEN 0 ELSE Head(bits) + 2 * BitsNat(Tail(bits))

\* bits * n + carry, exactly
RECURSIVE MulBits(_, _, _)
MulBits(bits, n, carry) ==
  IF bits = <<>> THEN NatBits(carry)
  ELSE << (n * Head(bits) + carry) % 2 >>
         \o MulBits(Tail(bits), n, (n * Head(bits) + carry) \div 2)

\* bits + 1
RECURSIVE IncBits(_)
IncBits(bits) ==
  IF bits = <<>> THEN << 1 >>
  ELSE IF Head(bits) = 0 THEN << 1 >> \o Tail(bits)
  ELSE << 0 >> \o IncBits(Tail(bits))

\* the bits above the lowest k
DropBits(bits, k) == SubSeq(bits, k + 1, Len(bits))

\* the lowest k bits are more than half of 2^k, or exactly half with the
\* bit above them set
RoundsUp(bits, k) ==
  /\ k > 0
  /\ bits[k] = 1
  /\ \/ \E i \in 1..(k - 1) : bits[i] = 1
     \/ bits[k + 1] = 1

\* bits * 2^exp without its lowest k bits, rounded to nearest, ties to even
Rounded(bits, exp, k) ==
  [ m   |-> IF RoundsUp(bits, k) THEN IncBits(DropBits(bits, k)) ELSE DropBits(bits, k),
    exp |-> exp + k ]

\* the double nearest to bits * 2^exp; the rounding carries into a new bit
\* only out of a significand of ones, and leaves a power of two
Nearest(bits, exp) ==
  IF Len(bits) <= SIGNIFICAND_BITS THEN [m |-> bits, exp |-> exp]
  ELSE Rounded(bits, exp, Len(bits) - SIGNIFICAND_BITS)

\* x * n in double arithmetic, for a natural number n
DoubleTimes(x, n) == Nearest(MulBits(x.m, n, 0), x.exp)

\* Math.ceil of a double below 2^31
DoubleCeil(x) ==
  IF x.exp >= 0 THEN BitsNat(MulBits(x.m, 2 ^ x.exp, 0))
  ELSE BitsNat(DropBits(x.m, -x.exp))
         + (IF \E i \in 1..Len(x.m) : i <= -x.exp /\ x.m[i] = 1 THEN 1 ELSE 0)

\* the significand 0x1999999999999A, lowest bit first
RECURSIVE Nines(_)
Nines(n) == IF n = 0 THEN <<>> ELSE << 1, 0, 0, 1 >> \o Nines(n - 1)

\* 0.2 as a double: 0x1999999999999A * 2^-55
POINT_TWO == [m |-> << 0, 1, 0, 1 >> \o Nines(12) \o << 1 >>, exp |-> -55]

(***************************************************************************)
(* Strings.                                                                *)
(***************************************************************************)
Whitespace == {" ", "\t"}

Digits == {"0", "1", "2", "3", "4", "5", "6", "7", "8", "9"}

DigitVal(c) ==
  CASE c = "0" -> 0 [] c = "1" -> 1 [] c = "2" -> 2 [] c = "3" -> 3
    [] c = "4" -> 4 [] c = "5" -> 5 [] c = "6" -> 6 [] c = "7" -> 7
    [] c = "8" -> 8 [] c = "9" -> 9

Pow10(k) == IF k = 0 THEN 1 ELSE IF k = 1 THEN 10 ELSE IF k = 2 THEN 100
            ELSE IF k = 3 THEN 1000 ELSE IF k = 4 THEN 10000 ELSE 100000

\* String.prototype.includes
Includes(s, sub) ==
  \E i \in 1..(Len(s) - Len(sub) + 1) : SubSeq(s, i, i + Len(sub) - 1) = sub

\* String.prototype.trim
RECURSIVE TrimLeft(_)
TrimLeft(s) ==
  IF s # <<>> /\ Head(s) \in Whitespace THEN TrimLeft(Tail(s)) ELSE s

RECURSIVE TrimRight(_)
TrimRight(s) ==
  IF s # <<>> /\ s[Len(s)] \in Whitespace
  THEN TrimRight(SubSeq(s, 1, Len(s) - 1)) ELSE s

Trim(s) == TrimRight(TrimLeft(s))

\* String.prototype.split with a one-character separator
RECURSIVE Split(_, _)
Split(s, c) ==
  IF \E i \in 1..Len(s) : s[i] = c
  THEN LET i == CHOOSE k \in 1..Len(s) :
                  s[k] = c /\ \A j \in 1..(k - 1) : s[j] # c
       IN <<SubSeq(s, 1, i - 1)>> \o Split(SubSeq(s, i + 1, Len(s)), c)
  ELSE <<s>>

\* value of a string of decimal digits
RECURSIVE DigitsValue(_)
DigitsValue(s) ==
  IF s = <<>> THEN 0
  ELSE 10 * DigitsValue(SubSeq(s, 1, Len(s) - 1)) + DigitVal(s[Len(s)])

\* the number of characters after the decimal point
FractionLen(body) ==
  IF \E i \in 1..Len(body) : body[i] = "."
  THEN Len(body) - (CHOOSE i \in 1..Len(body) : body[i] = ".")
  ELSE 0

\* an unsigned decimal literal with its sign, or NaN
SignedNumber(sgn, body) ==
  IF /\ \A i \in 1..Len(body) : body[i] \in Digits \cup {"."}
     /\ Cardinality({i \in 1..Len(body) : body[i] = "."}) <= 1
     /\ \E i \in 1..Len(body) : body[i] \in Digits
  THEN << sgn * DigitsValue(SelectSeq(body, LAMBDA c : c \in Digits)),
          Pow10(FractionLen(body)) >>
  ELSE NaN

\* Number of a string without surrounding white space
TrimmedNumber(t) ==
  IF t = <<>> THEN R(0)
  ELSE SignedNumber(IF Head(t) = "-" THEN -1 ELSE 1,
                    IF Head(t) \in {"-", "+"} THEN Tail(t) ELSE t)

\* Number(string): "" and blank strings are 0, a signed decimal literal is
\* its value, any other string over the modelled characters is NaN.
Number(raw) == TrimmedNumber(Trim(raw))

(***************************************************************************)
(* Values of the parsed workflow definition.  A value is a record with a   *)
(* tag t: "undefined", "null", "true", "number", "string" (s: its          *)
(* characters), "array" (items: a sequence of values) or "object" (f: a    *)
(* function from its own property names to values).                        *)
(***************************************************************************)
Undefined == [t |-> "undefined"]

Null == [t |-> "null"]

True == [t |-> "true"]

Num(n) == [t |-> "number", n |-> n]

Str(chars) == [t |-> "string", s |-> chars]

Arr(items) == [t |-> "array", items |-> items]

Obj(f) == [t |-> "object", f |-> f]

EmptyObj == Obj(<<>>)

\* a value used as a condition
Truthy(v) ==
  CASE v.t \in {"undefined", "null"} -> FALSE
    [] v.t = "number" -> IsFinite(v.n) /\ v.n[1] # 0
    [] v.t = "string" -> v.s # <<>>
    [] OTHER -> TRUE

\* typeof v
TypeOf(v) ==
  CASE v.t = "undefined" -> "undefined"
    [] v.t = "true" -> "boolean"
    [] v.t = "number" -> "number"
    [] v.t = "string" -> "string"
    [] OTHER -> "object"

IsArray(v) == v.t = "array"

\* Object.prototype.hasOwnProperty.call(v, key)
HasOwn(v, key) == v.t = "object" /\ key \in DOMAIN v.f

\* v[key] of a value that is not null or undefined
Get(v, key) == IF HasOwn(v, key) THEN v.f[key] ELSE Undefined

\* the object o with property key set to v
With(o, key, v) ==
  Obj([k \in DOMAIN o.f \cup {key} |-> IF k = key THEN v ELSE o.f[k]])

\* an object literal: the properties of f that are given a value
Literal(f) == Obj([k \in {j \in DOMAIN f : f[j] # Undefined} |-> f[k]])

\* an event name, kept as one symbol
EventName(name) == Str(<<name>>)

(***************************************************************************)
(* countCronFieldSlots                                                     *)
(***************************************************************************)
RangeOf_EndExcluded(start, end, step, rounded) ==
  IF ~IsFinite(start) \/ ~IsFinite(end) \/ RLt(end, start)
  THEN R(1)
  ELSE IF rounded
       THEN RMax(R(1), RCeil(RDiv(RSub(end, start), step)))
       ELSE RMax(R(1), RSub(end, start))

\* the result for a range from start to end; step is the divisor (1 when
\* there is none)
RangeOf(start, end, step, rounded) ==
  IF ~IsFinite(start) \/ ~IsFinite(end) \/ RLt(end, start)
  THEN R(1)
  ELSE IF rounded
       THEN RMax(R(1), RCeil(RDiv(RAdd(RSub(end, start), R(1)), step)))
       ELSE RMax(R(1), RAdd(RSub(end, start), R(1)))

\* the branch taken for a range "start-end", shared by the two places that
\* parse one
RangeSlots(text, step, rounded) ==
  RangeOf(Number(Split(text, "-")[1]), Number(Split(text, "-")[2]), step,
          rounded)

\* mutant: rounds down and drops the floor of 1
StepSlots_Floor(maxSlots, step) == R((maxSlots * step[2]) \div step[1])

\* Math.max(1, Math.ceil(maxSlots / step)) for a step > 0
StepSlots(maxSlots, step) == RMax(R(1), RCeil(RDiv(R(maxSlots), step)))

\* field.includes('-'), for a field that has no comma
PlainSlots(field) ==
  IF Includes(field, <<"-">>) THEN RangeSlots(field, R(1), FALSE) ELSE R(1)

\* field.includes('/'), with [base, stepRaw] = field.split('/')
SteppedSlots(base, step, field, maxSlots) ==
  IF ~IsFinite(step) \/ RLe(step, R(0)) THEN R(1)
  ELSE IF base = <<>> \/ base = <<"*">> THEN StepSlots(maxSlots, step)
  ELSE IF Includes(base, <<"-">>) THEN RangeSlots(base, step, TRUE)
  ELSE PlainSlots(field)

RECURSIVE countCronFieldSlots(_, _)
RECURSIVE SumSlots(_, _)
SumSlots(parts, maxSlots) ==
  IF parts = <<>> THEN R(0)
  ELSE RAdd(SumSlots(SubSeq(parts, 1, Len(parts) - 1), maxSlots),
            countCronFieldSlots(Trim(parts[Len(parts)]), maxSlots))

countCronFieldSlots(field, maxSlots) ==
  IF field = <<>> \/ field = <<"*">> THEN R(1)
  ELSE IF Includes(field, <<",">>) THEN SumSlots(Split(field, ","), maxSlots)
  ELSE IF Includes(field, <<"/">>)
       THEN SteppedSlots(Split(field, "/")[1], Number(Split(field, "/")[2]),
                         field, maxSlots)
       ELSE PlainSlots(field)

(***************************************************************************)
(* Inputs of the cron field specification: every string of at most         *)
(* MaxFieldLen characters over FieldChars and the fields of CronParts and  *)
(* CronLists, for both field widths.                                       *)
(***************************************************************************)
FieldChars == {"*", ",", "/", "-", ".", "0", "2", "5"}

FieldStrings == UNION {[1..n -> FieldChars] : n \in 0..MaxFieldLen}

\* fields of the cron grammar that are longer than MaxFieldLen: stepped
\* ranges, steps and ranges of one- and two-digit values, and lists of two
CronNumerals == { <<"0">>, <<"2">>, <<"5">>, <<"1", "5">> }

CronParts ==
  { <<"*">> } \cup CronNumerals
    \cup { <<"*", "/">> \o s : s \in CronNumerals }
    \cup { a \o <<"-">> \o b : a, b \in CronNumerals }
    \cup { a \o <<"-">> \o b \o <<"/">> \o s : a, b, s \in CronNumerals }

CronLists == { p \o <<",">> \o q : p, q \in CronParts }

SlotWidths == {24, 60}

InitField ==
  /\ pc = "called"
  /\ fn = "countCronFieldSlots"
  /\ args \in [field : FieldStrings \cup CronParts \cup CronLists, maxSlots : SlotWidths]
  /\ ret = NaN

ReturnField ==
  /\ pc = "called"
  /\ fn = "countCronFieldSlots"
  /\ ret' = countCronFieldSlots(args.field, args.maxSlots)
  /\ pc' = "returned"
  /\ UNCHANGED <<fn, args>>

NextField == ReturnField

SpecField == InitField /\ [][NextField]_vars

(***************************************************************************)
(* estimateScheduleRunsPerMonth                                            *)
(***************************************************************************)
\* String.prototype.split(/\s+/)
RECURSIVE SplitWs(_)
SplitWs(s) ==
  IF \E i \in 1..Len(s) : s[i] \in Whitespace
  THEN LET i == CHOOSE k \in 1..Len(s) :
                  s[k] \in Whitespace /\ \A j \in 1..(k - 1) : s[j] \notin Whitespace
       IN <<SubSeq(s, 1, i - 1)>> \o SplitWs(TrimLeft(SubSeq(s, i + 1, Len(s))))
  ELSE <<s>>

\* entry && typeof entry.cron === 'string' ? entry.cron.trim() : ''
CronText(entry) ==
  IF Truthy(entry) /\ TypeOf(Get(entry, "cron")) = "string"
  THEN Trim(Get(entry, "cron").s)
  ELSE <<>>

FALLBACK_RUNS == 4
WEEKLY_RUNS == 4
MONTHLY_RUNS == 1

\* mutant: tests day-of-month before day-of-week
baseRuns_DayOfMonthFirst(dayOfMonthField, monthField, dayOfWeekField) ==
  IF dayOfMonthField # <<"*">> THEN MONTHLY_RUNS
  ELSE IF dayOfWeekField # <<"*">> THEN WEEKLY_RUNS
  ELSE IF monthField # <<"*">> THEN MONTHLY_RUNS
  ELSE DAYS_PER_MONTH

\* the baseline cadence chosen from the day-of-month, month and day-of-week fields
baseRuns(dayOfMonthField, monthField, dayOfWeekField) ==
  IF dayOfWeekField # <<"*">> THEN WEEKLY_RUNS
  ELSE IF dayOfMonthField # <<"*">> THEN MONTHLY_RUNS
  ELSE IF monthField # <<"*">> THEN MONTHLY_RUNS
  ELSE DAYS_PER_MONTH

\* Math.max(1, minuteSlots * hourSlots)
TimeSlots(minuteSlots, hourSlots) == RMax(R(1), RMul(minuteSlots, hourSlots))

\* the contribution of an entry of five fields
CronRuns(parts) ==
  CeilInt(RMax(R(1),
               RCeil(RMul(R(baseRuns(parts[3], parts[4], parts[5])),
                          TimeSlots(countCronFieldSlots(parts[1], 60),
                                    countCronFieldSlots(parts[2], 24))))))

\* mutant: falls back only when there are fewer than 5 fields
EntryRuns_TooFewOnly(entry) ==
  LET parts == SplitWs(CronText(entry))
  IN  IF Len(parts) < 5 THEN FALLBACK_RUNS ELSE CronRuns(parts)

\* the contribution of one entry to the reduce
EntryRuns(entry) ==
  LET parts == SplitWs(CronText(entry))
  IN  IF Len(parts) # 5 THEN FALLBACK_RUNS ELSE CronRuns(parts)

\* the list the reduce runs over
Schedules(scheduleConfig) ==
  IF IsArray(scheduleConfig) THEN scheduleConfig.items
  ELSE IF Truthy(scheduleConfig) THEN <<scheduleConfig>>
  ELSE <<>>

RECURSIVE ReduceRuns(_)
ReduceRuns(schedules) ==
  IF schedules = <<>> THEN 0
  ELSE ReduceRuns(SubSeq(schedules, 1, Len(schedules) - 1))
         + EntryRuns(schedules[Len(schedules)])

estimateScheduleRunsPerMonth(scheduleConfig) ==
  LET schedules == Schedules(scheduleConfig)
  IN  IF Len(schedules) = 0 THEN 0 ELSE ReduceRuns(schedules)

(***************************************************************************)
(* Inputs of the schedule specification: lists of at most MaxEntries       *)
(* entries drawn from CronEntries, a single entry given without a list,    *)
(* the value true (from `on: schedule`), null and undefined.               *)
(***************************************************************************)
MaxEntries == 2

RECURSIVE Join(_, _)
Join(fields, sep) ==
  IF fields = <<>> THEN <<>>
  ELSE IF Len(fields) = 1 THEN fields[1]
  ELSE fields[1] \o sep \o Join(Tail(fields), sep)

TimeFieldPairs ==
  { << <<"*">>, <<"*">> >>,
    << <<"0">>, <<"2">> >>,
    << <<"*", "/", "5">>, <<"2", "-", "5">> >>,
    << <<".", "5", "-", "2">>, <<"*">> >> }

DayFields == { <<"*">>, <<"1">> }

WeekdayFields == { <<"*">>, <<"0">> }

FiveFieldCrons ==
  { Join(<<tp[1], tp[2], d, m, w>>, <<" ">>) :
      tp \in TimeFieldPairs, d \in DayFields, m \in DayFields, w \in WeekdayFields }
  \cup { Join(<< <<"0">>, <<"0">>, <<"1">>, <<"*">>, <<"*">> >>, <<" ">>) }

\* five fields again once trimmed and split on runs of blanks
PaddedCrons ==
  { <<" ">> \o Join(<< <<"0">>, <<"2">>, <<"*">>, <<"*">>, <<"0">> >>, <<" ">>) \o <<" ">>,
    Join(<< <<"0">>, <<"2">>, <<"*">>, <<"*">>, <<"*">> >>, <<" ", "\t">>) }

MalformedCrons ==
  { <<>>,
    <<" ">>,
    Join(<< <<"*">>, <<"*">>, <<"*">>, <<"*">> >>, <<" ">>),
    Join(<< <<"0">>, <<"2">>, <<"*">>, <<"*">>, <<"*">>, <<"*">> >>, <<" ">>) }

CronEntry(chars) == Obj([k \in {"cron"} |-> Str(chars)])

CronEntries ==
  { CronEntry(c) : c \in FiveFieldCrons \cup PaddedCrons \cup MalformedCrons }
  \cup { EmptyObj, Obj([k \in {"cron"} |-> Num(R(5))]), Null }

EntryLists == UNION {[1..n -> CronEntries] : n \in 0..MaxEntries}

ScheduleConfigs ==
  { Arr(l) : l \in EntryLists } \cup CronEntries \cup { True, Undefined }

InitSchedule ==
  /\ pc = "called"
  /\ fn = "estimateScheduleRunsPerMonth"
  /\ args \in [scheduleConfig : ScheduleConfigs]
  /\ ret = 0

ReturnSchedule ==
  /\ pc = "called"
  /\ fn = "estimateScheduleRunsPerMonth"
  /\ ret' = estimateScheduleRunsPerMonth(args.scheduleConfig)
  /\ pc' = "returned"
  /\ UNCHANGED <<fn, args>>

NextSchedule == ReturnSchedule

SpecSchedule == InitSchedule /\ [][NextSchedule]_vars

(***************************************************************************)
(* normalizeTriggers and estimateWorkflowRunsPerMonth                      *)
(***************************************************************************)
RECURSIVE ReduceEvents(_)
ReduceEvents(names) ==
  IF names = <<>> THEN EmptyObj
  ELSE LET acc       == ReduceEvents(SubSeq(names, 1, Len(names) - 1))
           eventName == names[Len(names)]
       IN  IF TypeOf(eventName) = "string"
           THEN With(acc, eventName.s[1], True)
           ELSE acc

normalizeTriggers(onConfig) ==
  IF ~Truthy(onConfig) THEN EmptyObj
  ELSE IF TypeOf(onConfig) = "string" THEN With(EmptyObj, onConfig.s[1], True)
  ELSE IF IsArray(onConfig) THEN ReduceEvents(onConfig.items)
  ELSE IF TypeOf(onConfig) = "object" THEN onConfig
  ELSE EmptyObj

OrDefault_WhenAbsent(options, name, fallback) ==
  IF HasOwn(options, name) THEN Get(options, name).n ELSE fallback

\* options.name || fallback
OrDefault(options, name, fallback) ==
  IF Truthy(Get(options, name)) THEN Get(options, name).n ELSE fallback

\* mutant: asks for more than one tag pattern
PushIsTagOnly_MoreThanOneTag(triggers) ==
  LET pushConfig == IF HasOwn(triggers, "push")
                       /\ TypeOf(Get(triggers, "push")) = "object"
                    THEN Get(triggers, "push") ELSE Null
  IN  /\ Truthy(pushConfig)
      /\ IsArray(Get(pushConfig, "tags"))
      /\ Len(Get(pushConfig, "tags").items) > 1
      /\ ~Truthy(Get(pushConfig, "branches"))
      /\ ~Truthy(Get(pushConfig, "branches-ignore"))

\* pushIsTagOnly
PushIsTagOnly(triggers) ==
  LET hasPush    == HasOwn(triggers, "push")
      pushConfig == IF hasPush /\ TypeOf(Get(triggers, "push")) = "object"
                    THEN Get(triggers, "push") ELSE Null
  IN  /\ Truthy(pushConfig)
      /\ IsArray(Get(pushConfig, "tags"))
      /\ Len(Get(pushConfig, "tags").items) > 0
      /\ ~Truthy(Get(pushConfig, "branches"))
      /\ ~Truthy(Get(pushConfig, "branches-ignore"))

\* mutant: one contribution for each release-type trigger present
ReleaseContribution_PerType(hasTagPush, hasRelease, hasCreate, releaseRunsPerMonth) ==
  RMul(R((IF hasTagPush THEN 1 ELSE 0) + (IF hasRelease THEN 1 ELSE 0)
         + (IF hasCreate THEN 1 ELSE 0)), releaseRunsPerMonth)

\* the contribution of the release-type triggers
ReleaseContribution(hasTagPush, hasRelease, hasCreate, releaseRunsPerMonth) ==
  IF hasTagPush \/ hasRelease \/ hasCreate THEN releaseRunsPerMonth ELSE R(0)

\* mutant: a negation is lost on hasSchedule
HasOnlyManualTrigger_NeedsSchedule(hasWorkflowDispatch, hasCommitPush, hasPullRequest, hasSchedule, hasTagPush, hasRelease, hasCreate) ==
  /\ hasWorkflowDispatch
  /\ ~hasCommitPush
  /\ ~hasPullRequest
  /\ hasSchedule
  /\ ~hasTagPush
  /\ ~hasRelease
  /\ ~hasCreate

\* hasOnlyManualTrigger
HasOnlyManualTrigger(hasWorkflowDispatch, hasCommitPush, hasPullRequest, hasSchedule, hasTagPush, hasRelease, hasCreate) ==
  /\ hasWorkflowDispatch
  /\ ~hasCommitPush
  /\ ~hasPullRequest
  /\ ~hasSchedule
  /\ ~hasTagPush
  /\ ~hasRelease
  /\ ~hasCreate

\* mutant: the floor of 1 is dropped
FinalRuns_NoFloor(runsPerMonth, commitsPerMonth) ==
  LET total == IF REq(runsPerMonth, R(0)) THEN R(commitsPerMonth) ELSE runsPerMonth
  IN  CeilInt(total)

FinalRuns_NoFallback(runsPerMonth, commitsPerMonth) ==
  CeilInt(RMax(R(1), RCeil(runsPerMonth)))

\* mutant: the fallback is one run a day, not one per commit
FinalRuns_DailyFallback(runsPerMonth, commitsPerMonth) ==
  LET total == IF REq(runsPerMonth, R(0)) THEN R(DAYS_PER_MONTH) ELSE runsPerMonth
  IN  CeilInt(RMax(R(1), RCeil(total)))

\* the value returned for the accumulated runsPerMonth
FinalRuns(runsPerMonth, commitsPerMonth) ==
  LET total == IF REq(runsPerMonth, R(0)) THEN R(commitsPerMonth) ELSE runsPerMonth
  IN  CeilInt(RMax(R(1), RCeil(total)))

\* mutant: every workflow runs once per commit, whatever its triggers
estimateWorkflowRunsPerMonth_PerCommit(workflow, commitsPerDay, options) ==
  LET commitsPerMonth == CeilInt(RMul(commitsPerDay, R(DAYS_PER_MONTH)))
  IN  IF commitsPerMonth < 1 THEN 1 ELSE commitsPerMonth

\* the estimate for normalized triggers
RunsForTriggers(triggers, commitsPerMonth, options) ==
  LET pullRequestFactor   ==
        OrDefault(options, "pullRequestFactor", DEFAULT_PULL_REQUEST_FACTOR)
      manualRunsPerMonth  ==
        OrDefault(options, "manualRunsPerMonth", R(DEFAULT_MANUAL_RUNS_PER_MONTH))
      releaseRunsPerMonth ==
        OrDefault(options, "releaseRunsPerMonth", R(DEFAULT_RELEASE_RUNS_PER_MONTH))
      hasPush             == HasOwn(triggers, "push")
      hasPullRequest      == HasOwn(triggers, "pull_request")
      hasSchedule         == HasOwn(triggers, "schedule")
      hasWorkflowDispatch == HasOwn(triggers, "workflow_dispatch")
      hasRelease          == HasOwn(triggers, "release")
      hasCreate           == HasOwn(triggers, "create")
      hasCommitPush       == hasPush /\ ~PushIsTagOnly(triggers)
      hasTagPush          == hasPush /\ PushIsTagOnly(triggers)
      fromPush     == IF hasCommitPush THEN R(commitsPerMonth) ELSE R(0)
      fromPull     == IF hasPullRequest
                      THEN RCeil(RMul(R(commitsPerMonth), pullRequestFactor))
                      ELSE R(0)
      fromSchedule == IF hasSchedule
                      THEN R(estimateScheduleRunsPerMonth(Get(triggers, "schedule")))
                      ELSE R(0)
      fromRelease  == ReleaseContribution(hasTagPush, hasRelease, hasCreate,
                                          releaseRunsPerMonth)
      fromManual   == IF HasOnlyManualTrigger(hasWorkflowDispatch, hasCommitPush,
                                              hasPullRequest, hasSchedule,
                                              hasTagPush, hasRelease, hasCreate)
                      THEN manualRunsPerMonth ELSE R(0)
  IN  FinalRuns(RAdd(RAdd(RAdd(RAdd(fromPush, fromPull), fromSchedule),
                          fromRelease), fromManual),
                commitsPerMonth)

estimateWorkflowRunsPerMonth(workflow, commitsPerDay, options) ==
  RunsForTriggers(normalizeTriggers(IF Truthy(workflow) THEN Get(workflow, "on")
                                    ELSE workflow),
                  CeilInt(RMul(commitsPerDay, R(DAYS_PER_MONTH))), options)

(***************************************************************************)
(* Inputs of the run-frequency specification: every form of the `on`       *)
(* declaration (absent, one event name, a list of at most MaxListedEvents  *)
(* names, a mapping), commit rates of 0 .. MaxCommitQuarters quarter       *)
(* commits a day, and the tuning options of TuningOptions.                 *)
(***************************************************************************)
MaxListedEvents == 2

MaxCommitQuarters == 4

EventNames ==
  {"push", "pull_request", "schedule", "workflow_dispatch", "release", "create",
   "issues"}

ListedEvents == { EventName(e) : e \in EventNames } \cup { Num(R(1)) }

TagChoices == { Undefined, Arr(<<>>), Arr(<< Str(<<"v", "*">>) >>) }

BranchList == Arr(<< Str(<<"m", "a", "i", "n">>) >>)

\* <<branches, branches-ignore>>
BranchChoices ==
  { <<Undefined, Undefined>>, <<BranchList, Undefined>>, <<Undefined, BranchList>>,
    <<Arr(<<>>), Undefined>> }

PushObject(tags, branches, branchesIgnore) ==
  Literal([k \in {"tags", "branches", "branches-ignore"} |->
             CASE k = "tags" -> tags
               [] k = "branches" -> branches
               [] OTHER -> branchesIgnore])

PushChoices ==
  { Undefined, Null }
  \cup { PushObject(tg, b[1], b[2]) : tg \in TagChoices, b \in BranchChoices }

ScheduleChoices ==
  { Undefined, Null, Arr(<<>>),
    Arr(<< CronEntry(Join(<< <<"0">>, <<"2">>, <<"*">>, <<"*">>, <<"0">> >>, <<" ">>)) >>),
    Arr(<< CronEntry(Join(<< <<"*">>, <<"*">>, <<"*">>, <<"*">>, <<"*">> >>, <<" ">>)),
           CronEntry(<<>>) >>) }

PresenceChoices == { Undefined, Null }

TriggerMaps ==
  { Literal([push |-> p, pull_request |-> pr, schedule |-> sc,
             workflow_dispatch |-> wd, release |-> rl, create |-> cr,
             issues |-> iss]) :
      p \in PushChoices, pr \in PresenceChoices, sc \in ScheduleChoices,
      wd \in PresenceChoices, rl \in PresenceChoices, cr \in PresenceChoices,
      iss \in PresenceChoices }

OnConfigs ==
  { Undefined }
  \cup { EventName(e) : e \in EventNames }
  \cup { Arr(l) : l \in UNION {[1..n -> ListedEvents] : n \in 0..MaxListedEvents} }
  \cup TriggerMaps

Workflows == { Literal([on |-> o]) : o \in OnConfigs }

CommitRates == { <<q, 4>> : q \in 0..MaxCommitQuarters }

TuningChoice(factor, manual, release) ==
  Literal([pullRequestFactor |-> factor, manualRunsPerMonth |-> manual,
           releaseRunsPerMonth |-> release])

TuningOptions ==
  { EmptyObj,
    TuningChoice(Num(<<1, 2>>), Num(R(3)), Num(R(2))),
    TuningChoice(Num(R(0)), Num(R(0)), Num(R(0))),
    TuningChoice(Undefined, Num(R(3)), Undefined),
    TuningChoice(Undefined, Undefined, Num(R(2))) }

InitRuns ==
  /\ pc = "called"
  /\ fn = "estimateWorkflowRunsPerMonth"
  /\ args \in [workflow : Workflows, commitsPerDay : CommitRates,
               options : TuningOptions]
  /\ ret = 0

ReturnRuns ==
  /\ pc = "called"
  /\ fn = "estimateWorkflowRunsPerMonth"
  /\ ret' = estimateWorkflowRunsPerMonth(args.workflow, args.commitsPerDay,
                                         args.options)
  /\ pc' = "returned"
  /\ UNCHANGED <<fn, args>>

NextRuns == ReturnRuns

SpecRuns == InitRuns /\ [][NextRuns]_vars


(***************************************************************************)
(* estimateWorkflowDuration and calculateMatrixSize                        *)
(***************************************************************************)
UpperCase == <<"A", "B", "C", "D", "E", "F", "G", "H", "I", "J", "K", "L", "M", "N", "O", "P", "Q", "R", "S", "T", "U", "V", "W", "X", "Y", "Z">>

LowerCase == <<"a", "b", "c", "d", "e", "f", "g", "h", "i", "j", "k", "l", "m", "n", "o", "p", "q", "r", "s", "t", "u", "v", "w", "x", "y", "z">>

\* String.prototype.toLowerCase
ToLowerCase(s) ==
  [i \in 1..Len(s) |->
     IF \E j \in 1..Len(UpperCase) : UpperCase[j] = s[i]
     THEN LowerCase[CHOOSE j \in 1..Len(UpperCase) : UpperCase[j] = s[i]]
     ELSE s[i]]

StepMinutes_LastMatch(step) ==
  IF Truthy(Get(step, "name"))
  THEN LET stepName == ToLowerCase(Get(step, "name").s)
       IN  IF Includes(stepName, <<"i", "n", "s", "t", "a", "l", "l">>) \/ Includes(stepName, <<"s", "e", "t", "u", "p">>)
           THEN 2
           ELSE IF Includes(stepName, <<"d", "e", "p", "l", "o", "y">>) \/ Includes(stepName, <<"p", "u", "b", "l", "i", "s", "h">>)
           THEN 3
           ELSE IF Includes(stepName, <<"b", "u", "i", "l", "d">>) \/ Includes(stepName, <<"c", "o", "m", "p", "i", "l", "e">>)
           THEN 5
           ELSE IF Includes(stepName, <<"t", "e", "s", "t">>) \/ Includes(stepName, <<"e", "2", "e">>)
           THEN 10
           ELSE 1
  ELSE 1

\* the minutes one step adds to its job
StepMinutes(step) ==
  IF Truthy(Get(step, "name"))
  THEN LET stepName == ToLowerCase(Get(step, "name").s)
       IN  IF Includes(stepName, <<"t", "e", "s", "t">>) \/ Includes(stepName, <<"e", "2", "e">>)
           THEN 10
           ELSE IF Includes(stepName, <<"b", "u", "i", "l", "d">>)
                   \/ Includes(stepName, <<"c", "o", "m", "p", "i", "l", "e">>)
           THEN 5
           ELSE IF Includes(stepName, <<"d", "e", "p", "l", "o", "y">>)
                   \/ Includes(stepName, <<"p", "u", "b", "l", "i", "s", "h">>)
           THEN 3
           ELSE IF Includes(stepName, <<"i", "n", "s", "t", "a", "l", "l">>)
                   \/ Includes(stepName, <<"s", "e", "t", "u", "p">>)
           THEN 2
           ELSE 1
  ELSE 1

RECURSIVE SumStepMinutes(_)
SumStepMinutes(steps) ==
  IF steps = <<>> THEN 0
  ELSE SumStepMinutes(SubSeq(steps, 1, Len(steps) - 1))
       + StepMinutes(steps[Len(steps)])

BASE_JOB_MINUTES == 5

MAX_JOB_MINUTES == 60

\* jobMinutes before the matrix strategy is looked at
ClampedJobMinutes(job) ==
  LET steps == Get(job, "steps")
  IN  IF Truthy(steps) /\ IsArray(steps)
      THEN LET jobMinutes == BASE_JOB_MINUTES + SumStepMinutes(steps.items)
           IN  IF jobMinutes < MAX_JOB_MINUTES THEN jobMinutes
               ELSE MAX_JOB_MINUTES
      ELSE BASE_JOB_MINUTES

\* the values of Object.values(matrix) that are arrays, by property name;
\* the characters of a string are not arrays
ArrayAxes(matrix) ==
  IF matrix.t = "object" THEN { k \in DOMAIN matrix.f : IsArray(matrix.f[k]) }
  ELSE {}

\* mutant: adds the lengths of the axes
RECURSIVE SumOfLengths(_, _)
SumOfLengths(matrix, axes) ==
  IF axes = {} THEN 0
  ELSE LET k == CHOOSE a \in axes : TRUE
       IN  Len(matrix.f[k].items) + SumOfLengths(matrix, axes \ {k})

calculateMatrixSize_Sum(matrix) ==
  IF ArrayAxes(matrix) = {} THEN 1 ELSE SumOfLengths(matrix, ArrayAxes(matrix))

RECURSIVE MultiplyLengths(_, _)
MultiplyLengths(matrix, axes) ==
  IF axes = {} THEN 1
  ELSE LET k == CHOOSE a \in axes : TRUE
       IN  Len(matrix.f[k].items) * MultiplyLengths(matrix, axes \ {k})

\* mutant: a matrix with an empty axis still counts as one combination
calculateMatrixSize_AtLeastOne(matrix) ==
  IF MultiplyLengths(matrix, ArrayAxes(matrix)) = 0 THEN 1
  ELSE MultiplyLengths(matrix, ArrayAxes(matrix))

calculateMatrixSize(matrix) == MultiplyLengths(matrix, ArrayAxes(matrix))

\* mutant: the cap is applied to the job's minutes after the matrix factor
JobMinutes_CapAfterMatrix(job) ==
  LET steps      == Get(job, "steps")
      uncapped   == IF Truthy(steps) /\ IsArray(steps)
                    THEN BASE_JOB_MINUTES + SumStepMinutes(steps.items)
                    ELSE BASE_JOB_MINUTES
      strategy   == Get(job, "strategy")
      multiplied == IF Truthy(strategy) /\ Truthy(Get(strategy, "matrix"))
                    THEN uncapped * calculateMatrixSize(Get(strategy, "matrix"))
                    ELSE uncapped
  IN  IF multiplied < MAX_JOB_MINUTES THEN multiplied ELSE MAX_JOB_MINUTES

\* the minutes one job adds to totalMinutes
JobMinutes(job) ==
  LET jobMinutes == ClampedJobMinutes(job)
      strategy   == Get(job, "strategy")
  IN  IF Truthy(strategy) /\ Truthy(Get(strategy, "matrix"))
      THEN jobMinutes * calculateMatrixSize(Get(strategy, "matrix"))
      ELSE jobMinutes

RECURSIVE SumJobMinutes(_, _)
SumJobMinutes(jobs, names) ==
  IF names = {} THEN 0
  ELSE LET k == CHOOSE a \in names : TRUE
       IN  JobMinutes(jobs.f[k]) + SumJobMinutes(jobs, names \ {k})

\* totalMinutes is a sum of integers, so Math.ceil returns it unchanged
estimateWorkflowDuration(workflow) ==
  IF ~Truthy(Get(workflow, "jobs")) THEN 0
  ELSE SumJobMinutes(Get(workflow, "jobs"), DOMAIN Get(workflow, "jobs").f)

(***************************************************************************)
(* Inputs of the duration specification: a job has no steps, steps that    *)
(* are not a list, a list of at most MaxSteps steps over StepSamples or a  *)
(* list of at most MaxRepeats copies of one step; its matrix is built from *)
(* the axes of AxisChoices; a workflow has no jobs, one job, or at most    *)
(* MaxJobs jobs of JobSamples.                                             *)
(***************************************************************************)
MaxSteps == 2

MaxRepeats == 7

MaxJobs == 2

StepNames ==
  { <<"T", "e", "s", "t">>, <<"E", "2", "E">>, <<"B", "u", "i", "l", "d">>, <<"c", "o", "m", "p", "i", "l", "e">>, <<"D", "e", "p", "l", "o", "y">>, <<"p", "u", "b", "l", "i", "s", "h">>,
    <<"I", "n", "s", "t", "a", "l", "l">>, <<"s", "e", "t", "u", "p">>, <<"L", "i", "n", "t">>, <<"S", "e", "t", "u", "p", " ", "t", "e", "s", "t", "s">>,
    <<"B", "u", "i", "l", "d", " ", "a", "n", "d", " ", "d", "e", "p", "l", "o", "y">> }

StepSamples ==
  { Literal([name |-> Str(n), run |-> Str(<<"x">>)]) : n \in StepNames }
    \cup { Literal([name |-> Str(<<>>), run |-> Str(<<"x">>)]),
           Literal([run |-> Str(<<"x">>)]) }

StepLists ==
  UNION { [1..n -> StepSamples] : n \in 0..MaxSteps }
    \cup { [i \in 1..n |-> s] : n \in 1..MaxRepeats, s \in StepSamples }

StepsChoices ==
  { Undefined, Str(<<"x">>) } \cup { Arr(l) : l \in StepLists }

Values(n) == Arr([i \in 1..n |-> Num(R(i))])

AxisChoices ==
  [ node    : { Undefined, Arr(<<>>), Values(3), Str(<<"$">>) },
    os      : { Undefined, Values(2), Values(3) },
    include : { Undefined, Str(<<"$">>) } ]

StrategyChoices ==
  { Undefined, EmptyObj, Literal([matrix |-> Str(<<"$">>)]) }
    \cup { Literal([matrix |-> Literal(m)]) : m \in AxisChoices }

Jobs ==
  { Literal([steps |-> s, strategy |-> g]) :
      s \in StepsChoices, g \in StrategyChoices }

JobSamples ==
  { Literal([steps |-> s, strategy |-> g]) :
      s \in { Undefined,
              Arr(<< Literal([name |-> Str(<<"T", "e", "s", "t">>)]) >>),
              Arr([i \in 1..MaxRepeats |-> Literal([name |-> Str(<<"T", "e", "s", "t">>)])]) },
      g \in { Undefined,
              Literal([matrix |-> Literal([node |-> Values(3),
                                           os |-> Values(2)])]) } }

JobNames == << "lint", "test", "build", "deploy" >>

JobMaps ==
  { Obj([k \in { JobNames[i] : i \in 1..n } |-> j[k]]) :
      j \in [ { JobNames[i] : i \in 1..MaxJobs } -> JobSamples ],
      n \in 0..MaxJobs }

DurationWorkflows ==
  { Literal([name |-> Str(<<"x">>), jobs |-> j]) :
      j \in { Undefined, Null } \cup JobMaps
            \cup { Obj([k \in {"test"} |-> job]) : job \in Jobs } }

InitDuration ==
  /\ pc = "called"
  /\ fn = "estimateWorkflowDuration"
  /\ args \in { [workflow |-> w] : w \in DurationWorkflows }
  /\ ret = Undefined

ReturnDuration ==
  /\ pc = "called"
  /\ fn = "estimateWorkflowDuration"
  /\ pc' = "returned"
  /\ ret' = estimateWorkflowDuration(args.workflow)
  /\ UNCHANGED <<fn, args>>

NextDuration == ReturnDuration

SpecDuration == InitDuration /\ [][NextDuration]_vars


(***************************************************************************)
(* analyzeOptimizations.  A recommendation is a record; the text of a      *)
(* template string is kept with the values put into it.                    *)
(***************************************************************************)
\* the names of Object.keys / Object.entries: the property names in the
\* order the document lists them, which for the modelled documents is the
\* order of JobNames
ObjectKeys(o) == SelectSeq(JobNames, LAMBDA k : k \in DOMAIN o.f)

HasCaching_AnySetup(steps) ==
  \E i \in 1..Len(steps) :
    /\ Truthy(Get(steps[i], "uses"))
    /\ \/ Includes(Get(steps[i], "uses").s, <<"a", "c", "t", "i", "o", "n", "s", "/", "c", "a", "c", "h", "e">>)
       \/ Includes(Get(steps[i], "uses").s, <<"a", "c", "t", "i", "o", "n", "s", "/", "s", "e", "t", "u", "p", "-">>)

\* job.steps.some(step => step.uses && (... 'actions/cache' ... 'actions/setup-node'))
HasCaching(steps) ==
  \E i \in 1..Len(steps) :
    /\ Truthy(Get(steps[i], "uses"))
    /\ \/ Includes(Get(steps[i], "uses").s, <<"a", "c", "t", "i", "o", "n", "s", "/", "c", "a", "c", "h", "e">>)
       \/ Includes(Get(steps[i], "uses").s, <<"a", "c", "t", "i", "o", "n", "s", "/", "s", "e", "t", "u", "p", "-", "n", "o", "d", "e">>)

\* job.steps.some(step => step.run && (... 'npm install' ...))
HasInstall(steps) ==
  \E i \in 1..Len(steps) :
    /\ Truthy(Get(steps[i], "run"))
    /\ \/ Includes(Get(steps[i], "run").s, <<"n", "p", "m", " ", "i", "n", "s", "t", "a", "l", "l">>)
       \/ Includes(Get(steps[i], "run").s, <<"y", "a", "r", "n", " ", "i", "n", "s", "t", "a", "l", "l">>)
       \/ Includes(Get(steps[i], "run").s, <<"p", "n", "p", "m", " ", "i", "n", "s", "t", "a", "l", "l">>)
       \/ Includes(Get(steps[i], "run").s, <<"p", "i", "p", " ", "i", "n", "s", "t", "a", "l", "l">>)

CACHING_SAVINGS_PER_RUN == 3

\* 1. missing caching
CachingRecommendations(workflowName, jobName, job, runsPerMonth) ==
  LET steps    == Get(job, "steps")
      hasSteps == Truthy(steps) /\ IsArray(steps)
  IN  IF hasSteps /\ HasInstall(steps.items) /\ ~HasCaching(steps.items)
      THEN << [ type             |-> "caching",
                workflow         |-> workflowName,
                job              |-> jobName,
                title            |-> "Add dependency caching",
                description      |->
                  << "Job installs dependencies but doesn't cache them",
                     jobName >>,
                action           |-> << "Add actions/cache before install step" >>,
                potentialSavings |-> CeilInt(R(CACHING_SAVINGS_PER_RUN * runsPerMonth)),
                savingsPerRun    |-> CACHING_SAVINGS_PER_RUN,
                priority         |-> "high" ] >>
      ELSE <<>>

MIN_MATRIX_SIZE == 6

HIGH_MATRIX_SIZE == 9

\* 0.5
REDUCTION_FACTOR == <<1, 2>>

MatrixPriority_AboveNine(matrixSize) == IF matrixSize > HIGH_MATRIX_SIZE THEN "high" ELSE "medium"

\* matrixSize >= 9 ? 'high' : 'medium'
MatrixPriority(matrixSize) == IF matrixSize >= HIGH_MATRIX_SIZE THEN "high" ELSE "medium"

\* 2. oversized matrix strategies
MatrixRecommendations(wf, jobName, job, runsPerMonth) ==
  LET strategy       == Get(job, "strategy")
      hasMatrix      == Truthy(strategy) /\ Truthy(Get(strategy, "matrix"))
      matrixSize     == calculateMatrixSize(Get(strategy, "matrix"))
      currentMinutes == Get(wf, "estimatedDuration").n
  IN  IF hasMatrix /\ matrixSize >= MIN_MATRIX_SIZE
      THEN << [ type             |-> "matrix",
                workflow         |-> Get(wf, "name").s,
                job              |-> jobName,
                title            |-> "Reduce matrix size",
                description      |->
                  << "Job runs matrix combinations", jobName, matrixSize >>,
                action           |->
                  << "Consider testing only LTS + latest versions",
                     CeilInt(<<matrixSize, 2>>) >>,
                potentialSavings |->
                  CeilInt(RMul(RMul(currentMinutes, REDUCTION_FACTOR),
                               R(runsPerMonth))),
                savingsPerRun    |->
                  CeilInt(RMul(currentMinutes, REDUCTION_FACTOR)),
                priority         |-> MatrixPriority(matrixSize) ] >>
      ELSE <<>>

\* the body of the loop over Object.entries(workflow.jobs)
RECURSIVE JobRecommendations(_, _, _, _)
JobRecommendations(wf, jobs, jobNames, runsPerMonth) ==
  IF jobNames = <<>> THEN <<>>
  ELSE LET jobName == Head(jobNames)
           job     == jobs.f[jobName]
       IN  CachingRecommendations(Get(wf, "name").s, jobName, job, runsPerMonth)
           \o MatrixRecommendations(wf, jobName, job, runsPerMonth)
           \o JobRecommendations(wf, jobs, Tail(jobNames), runsPerMonth)

HIGH_FREQUENCY_RUNS == 20

LOW_FREQUENCY_RUNS == 4

MIN_SAVINGS == 50

HIGH_SAVINGS == 500

\* scheduledRuns
ScheduledRuns(workflow) ==
  IF HasOwn(normalizeTriggers(Get(workflow, "on")), "schedule")
  THEN estimateScheduleRunsPerMonth(
         Get(normalizeTriggers(Get(workflow, "on")), "schedule"))
  ELSE 0

\* a recommendation of type frequency
Frequency(wf, scheduledRuns, action, savingsPerMonth, priority) ==
  [ type             |-> "frequency",
    workflow         |-> Get(wf, "name").s,
    title            |-> "Reduce schedule frequency",
    description      |-> << "runs about x/month", scheduledRuns >>,
    action           |-> << action >>,
    potentialSavings |-> savingsPerMonth,
    savingsPerRun    |-> 0,
    priority         |-> priority ]

FrequencySavings_AllRuns(wf, currentRuns, proposedRuns) ==
  CeilInt(RMul(Get(wf, "estimatedDuration").n, R(currentRuns)))

\* Math.ceil(wf.estimatedDuration * (currentRuns - proposedRuns))
FrequencySavings(wf, currentRuns, proposedRuns) ==
  CeilInt(RMul(Get(wf, "estimatedDuration").n, R(currentRuns - proposedRuns)))

\* mutant: the monthly recommendation is emitted whatever its savings
FrequencyFor_NoThreshold(wf, scheduledRuns) ==
  (IF scheduledRuns >= HIGH_FREQUENCY_RUNS
   THEN << Frequency(wf, scheduledRuns, "Change to weekly schedule (4x/month)",
                     FrequencySavings(wf, scheduledRuns, 4),
                     IF FrequencySavings(wf, scheduledRuns, 4) > HIGH_SAVINGS
                     THEN "high" ELSE "medium") >>
   ELSE <<>>)
  \o
  (IF scheduledRuns >= LOW_FREQUENCY_RUNS /\ scheduledRuns < HIGH_FREQUENCY_RUNS
   THEN << Frequency(wf, scheduledRuns, "Change to monthly schedule (1x/month)",
                     FrequencySavings(wf, scheduledRuns, 1), "low") >>
   ELSE <<>>)

\* the two conditions on scheduledRuns
FrequencyFor(wf, scheduledRuns) ==
  (IF scheduledRuns >= HIGH_FREQUENCY_RUNS
   THEN << Frequency(wf, scheduledRuns, "Change to weekly schedule (4x/month)",
                     FrequencySavings(wf, scheduledRuns, 4),
                     IF FrequencySavings(wf, scheduledRuns, 4) > HIGH_SAVINGS
                     THEN "high" ELSE "medium") >>
   ELSE <<>>)
  \o
  (IF /\ scheduledRuns >= LOW_FREQUENCY_RUNS
      /\ scheduledRuns < HIGH_FREQUENCY_RUNS
      /\ FrequencySavings(wf, scheduledRuns, 1) > MIN_SAVINGS
   THEN << Frequency(wf, scheduledRuns, "Change to monthly schedule (1x/month)",
                     FrequencySavings(wf, scheduledRuns, 1), "low") >>
   ELSE <<>>)

\* 3. high-frequency scheduled workflows; scheduledRuns is bound to a name
\* so that it is computed once
FrequencyRecommendations(wf, workflow) ==
  IF ~Truthy(Get(workflow, "on")) THEN <<>>
  ELSE CHOOSE result \in
         { FrequencyFor(wf, scheduledRuns) :
             scheduledRuns \in { ScheduledRuns(workflow) } } : TRUE

\* 0.2
WASTED_RUNS_FACTOR == POINT_TWO

\* Math.ceil(wf.estimatedDuration * wastedRuns), in exact arithmetic
WastedMinutes_Exact(duration, runsPerMonth) ==
  CeilInt(<<duration * runsPerMonth * 2, 10>>)

\* wastedRuns = runsPerMonth * 0.2, then
\* Math.ceil(wf.estimatedDuration * wastedRuns), each product rounded
WastedMinutes(duration, runsPerMonth) ==
  DoubleCeil(DoubleTimes(DoubleTimes(WASTED_RUNS_FACTOR, runsPerMonth), duration))

\* workflow.on.push || workflow.on.pull_request
HasPush(on) == Truthy(Get(on, "push")) \/ Truthy(Get(on, "pull_request"))

\* paths || paths-ignore of workflow.on.push or workflow.on.pull_request
HasPathFilter(on) ==
  \E event \in {"push", "pull_request"} :
    /\ Truthy(Get(on, event))
    /\ Truthy(Get(Get(on, event), "paths")) \/ Truthy(Get(Get(on, event), "paths-ignore"))

Conditional(wf, savingsPerMonth) ==
  IF savingsPerMonth > MIN_SAVINGS
  THEN << [ type             |-> "conditional",
            workflow         |-> Get(wf, "name").s,
            title            |-> "Add path filters",
            description      |-> << "runs on all commits" >>,
            action           |-> << "Skip CI for docs-only changes" >>,
            potentialSavings |-> savingsPerMonth,
            savingsPerRun    |-> 0,
            priority         |-> "medium" ] >>
  ELSE <<>>

\* 4. missing path filters; the duration is a whole number of minutes
ConditionalRecommendations(wf, workflow, runsPerMonth) ==
  IF /\ Truthy(Get(workflow, "on"))
     /\ TypeOf(Get(workflow, "on")) = "object"
     /\ HasPush(Get(workflow, "on"))
     /\ ~HasPathFilter(Get(workflow, "on"))
     /\ ~Includes(Get(wf, "name").s, <<"r", "e", "l", "e", "a", "s", "e">>)
  THEN Conditional(wf, WastedMinutes(CeilInt(Get(wf, "estimatedDuration").n), runsPerMonth))
  ELSE <<>>

\* the detectors, for a workflow that has jobs
DetectorResults(wf, workflow, runsPerMonth) ==
  JobRecommendations(wf, Get(workflow, "jobs"),
                     ObjectKeys(Get(workflow, "jobs")), runsPerMonth)
  \o FrequencyRecommendations(wf, workflow)
  \o ConditionalRecommendations(wf, workflow, runsPerMonth)

\* the body of the loop over the workflows; runsPerMonth is bound to a name
\* so that it is computed once
WorkflowRecommendations(wf, commitsPerDay) ==
  IF ~Truthy(Get(Get(wf, "parsed"), "jobs")) THEN <<>>
  ELSE CHOOSE result \in
         { DetectorResults(wf, Get(wf, "parsed"), runsPerMonth) :
             runsPerMonth \in
               { estimateWorkflowRunsPerMonth(Get(wf, "parsed"), commitsPerDay,
                                              EmptyObj) } } : TRUE

\* recommendations, before it is sorted
RECURSIVE EmittedRecommendations(_, _)
EmittedRecommendations(workflows, commitsPerDay) ==
  IF workflows = <<>> THEN <<>>
  ELSE WorkflowRecommendations(Head(workflows), commitsPerDay)
       \o EmittedRecommendations(Tail(workflows), commitsPerDay)

\* (a, b) => b.potentialSavings - a.potentialSavings
CompareSavings(a, b) == b.potentialSavings - a.potentialSavings

\* mutant: an element goes before the elements that compare equal to it
InsertBySavings_BeforeEqual(sorted, r) ==
  LET before == { i \in 1..Len(sorted) : CompareSavings(sorted[i], r) < 0 }
      n      == Cardinality(before)
  IN  SubSeq(sorted, 1, n) \o <<r>> \o SubSeq(sorted, n + 1, Len(sorted))

\* r put into a sorted list after every element that does not compare
\* greater than it
InsertBySavings(sorted, r) ==
  LET before == { i \in 1..Len(sorted) : CompareSavings(sorted[i], r) <= 0 }
      n      == Cardinality(before)
  IN  SubSeq(sorted, 1, n) \o <<r>> \o SubSeq(sorted, n + 1, Len(sorted))

\* Array.prototype.sort, which is stable, with CompareSavings; the sorted
\* prefix is bound to a name so that it is computed once
RECURSIVE SortBySavings(_)
SortBySavings(recommendations) ==
  IF recommendations = <<>> THEN <<>>
  ELSE CHOOSE result \in
         { InsertBySavings(sorted, recommendations[Len(recommendations)]) :
             sorted \in { SortBySavings(SubSeq(recommendations, 1,
                                               Len(recommendations) - 1)) } } :
         TRUE

analyzeOptimizations(workflows, commitsPerDay) ==
  CHOOSE result \in
    { SortBySavings(recommendations) :
        recommendations \in { EmittedRecommendations(workflows, commitsPerDay) } } :
    TRUE

(***************************************************************************)
(* Inputs of the optimization specification: one workflow record of        *)
(* RecordVariety (every name, duration, trigger declaration and job map of *)
(* the samples) or of JobVariety (one job with every list of at most       *)
(* MaxSteps steps over OptSteps and every strategy), or a list of at most  *)
(* MaxWorkflows records of RecordSamples; commit rates as above.           *)
(***************************************************************************)
MaxWorkflows == 2

WorkflowNames == { <<"c", "i", ".", "y", "m", "l">>, <<"r", "e", "l", "e", "a", "s", "e", ".", "y", "m", "l">> }

OptDurations == { 0, 10, 15, 25, 100 }

PathList == Arr(<< Str(<<"s", "r", "c", "/", "*", "*">>) >>)

PathsIgnore == Obj([k \in {"paths-ignore"} |-> PathList])

DailyCron == Join(<< <<"0">>, <<"2">>, <<"*">>, <<"*">>, <<"*">> >>, <<" ">>)

SundayCron == Join(<< <<"0">>, <<"2">>, <<"*">>, <<"*">>, <<"0">> >>, <<" ">>)

FirstOfMonthCron == Join(<< <<"0">>, <<"2">>, <<"1">>, <<"*">>, <<"*">> >>, <<" ">>)

\* six hours of the first day of the month, and of every Sunday
MonthlySixCron == Join(<< <<"0">>, <<"1", "-", "6">>, <<"1">>, <<"*">>, <<"*">> >>, <<" ">>)

SundaySixCron == Join(<< <<"0">>, <<"1", "-", "6">>, <<"*">>, <<"*">>, <<"0">> >>, <<" ">>)

OptOnConfigs ==
  { Undefined,
    EventName("push"),
    Arr(<< EventName("push"), EventName("pull_request") >>),
    Literal([push |-> Null]),
    Literal([push |-> Literal([branches |-> BranchList])]),
    Literal([push |-> Literal([paths |-> PathList])]),
    Literal([pull_request |-> Literal([branches |-> BranchList])]),
    Literal([push |-> Literal([branches |-> BranchList]),
             pull_request |-> PathsIgnore]),
    Literal([workflow_dispatch |-> Null]),
    Literal([schedule |-> Arr(<< CronEntry(DailyCron) >>)]),
    Literal([schedule |-> Arr(<< CronEntry(SundayCron) >>)]),
    Literal([schedule |-> Arr(<< CronEntry(SundayCron), CronEntry(SundayCron) >>)]),
    Literal([schedule |-> Arr(<< CronEntry(FirstOfMonthCron) >>)]),
    Literal([schedule |-> Arr(<< CronEntry(MonthlySixCron) >>)]),
    Literal([schedule |-> Arr(<< CronEntry(SundaySixCron) >>)]),
    EventName("schedule"),
    Literal([push |-> Literal([branches |-> BranchList]),
             schedule |-> Arr(<< CronEntry(DailyCron) >>)]) }

OptSteps ==
  { Literal([uses |-> Str(<<"a", "c", "t", "i", "o", "n", "s", "/", "c", "h", "e", "c", "k", "o", "u", "t", "@", "v", "4">>)]),
    Literal([uses |-> Str(<<"a", "c", "t", "i", "o", "n", "s", "/", "c", "a", "c", "h", "e", "@", "v", "4">>)]),
    Literal([uses |-> Str(<<"a", "c", "t", "i", "o", "n", "s", "/", "s", "e", "t", "u", "p", "-", "n", "o", "d", "e", "@", "v", "4">>)]),
    Literal([uses |-> Str(<<"a", "c", "t", "i", "o", "n", "s", "/", "s", "e", "t", "u", "p", "-", "p", "y", "t", "h", "o", "n", "@", "v", "5">>)]),
    Literal([name |-> Str(<<"I", "n", "s", "t", "a", "l", "l">>), run |-> Str(<<"n", "p", "m", " ", "i", "n", "s", "t", "a", "l", "l">>)]),
    Literal([run |-> Str(<<"p", "i", "p", " ", "i", "n", "s", "t", "a", "l", "l", " ", "-", "r", " ", "x">>)]),
    Literal([run |-> Str(<<"y", "a", "r", "n", " ", "i", "n", "s", "t", "a", "l", "l">>)]),
    Literal([run |-> Str(<<"p", "n", "p", "m", " ", "i", "n", "s", "t", "a", "l", "l">>)]),
    Literal([name |-> Str(<<"T", "e", "s", "t">>), run |-> Str(<<"n", "p", "m", " ", "t", "e", "s", "t">>)]) }

OptStepLists == UNION { [1..n -> OptSteps] : n \in 0..MaxSteps }

OptStrategies ==
  { Undefined,
    Literal([matrix |-> Literal([node |-> Values(3), os |-> Values(2)])]),
    Literal([matrix |-> Literal([node |-> Values(3), os |-> Values(3)])]),
    Literal([matrix |-> Literal([node |-> Values(3)])]),
    Literal([matrix |-> Literal([node |-> Values(5)])]),
    Literal([matrix |-> Literal([node |-> Values(7)])]),
    Literal([matrix |-> Literal([node |-> Values(4), os |-> Values(2)])]),
    Literal([matrix |-> Literal([node |-> Values(4), os |-> Values(3)])]),
    Literal([matrix |-> Str(<<"$">>)]) }

OptJobs ==
  { Literal([steps |-> s, strategy |-> g]) :
      s \in { Undefined } \cup { Arr(l) : l \in OptStepLists },
      g \in OptStrategies }

Checkout == Literal([uses |-> Str(<<"a", "c", "t", "i", "o", "n", "s", "/", "c", "h", "e", "c", "k", "o", "u", "t", "@", "v", "4">>)])

NpmInstall == Literal([name |-> Str(<<"I", "n", "s", "t", "a", "l", "l">>), run |-> Str(<<"n", "p", "m", " ", "i", "n", "s", "t", "a", "l", "l">>)])

UseCache == Literal([uses |-> Str(<<"a", "c", "t", "i", "o", "n", "s", "/", "c", "a", "c", "h", "e", "@", "v", "4">>)])

PlainJob == Literal([steps |-> Arr(<< Checkout >>)])

InstallJob == Literal([steps |-> Arr(<< Checkout, NpmInstall >>)])

CachedInstallJob == Literal([steps |-> Arr(<< UseCache, NpmInstall >>)])

MatrixJob(n, m) ==
  Literal([strategy |->
             Literal([matrix |-> Literal([node |-> Values(n), os |-> Values(m)])])])

InstallMatrixJob(n, m) ==
  Literal([steps |-> Arr(<< Checkout, NpmInstall >>),
           strategy |->
             Literal([matrix |-> Literal([node |-> Values(n), os |-> Values(m)])])])

JobMapSamples ==
  { Undefined,
    EmptyObj,
    Literal([test |-> PlainJob]),
    Literal([test |-> InstallJob]),
    Literal([test |-> CachedInstallJob]),
    Literal([test |-> MatrixJob(3, 2)]),
    Literal([lint |-> InstallJob, test |-> InstallMatrixJob(3, 3)]) }

WorkflowRecord(name, duration, on, jobs) ==
  Literal([ name              |-> Str(name),
            estimatedDuration |-> Num(R(duration)),
            parsed            |-> Literal([on |-> on, jobs |-> jobs]) ])

RecordVariety ==
  { WorkflowRecord(n, d, o, j) :
      n \in WorkflowNames, d \in OptDurations, o \in OptOnConfigs,
      j \in JobMapSamples }

JobVariety ==
  { WorkflowRecord(<<"c", "i", ".", "y", "m", "l">>, 10, Literal([push |-> Null]),
                   Literal([test |-> j])) : j \in OptJobs }

RecordSamples ==
  { WorkflowRecord(n, d, o, j) :
      n \in WorkflowNames,
      d \in { 10, 15 },
      o \in { Literal([push |-> Literal([branches |-> BranchList])]),
              Literal([schedule |-> Arr(<< CronEntry(DailyCron) >>)]) },
      j \in { Literal([lint |-> InstallJob, test |-> InstallJob]),
              Literal([lint |-> InstallJob, test |-> InstallMatrixJob(3, 3)]) } }

WorkflowLists ==
  { <<w>> : w \in RecordVariety \cup JobVariety }
    \cup UNION { [1..n -> RecordSamples] : n \in 0..MaxWorkflows }

InitOptimizations ==
  /\ pc = "called"
  /\ fn = "analyzeOptimizations"
  /\ args \in { [workflows |-> w, commitsPerDay |-> c] :
                  w \in WorkflowLists, c \in CommitRates }
  /\ ret = Undefined

ReturnOptimizations ==
  /\ pc = "called"
  /\ fn = "analyzeOptimizations"
  /\ pc' = "returned"
  /\ ret' = analyzeOptimizations(args.workflows, args.commitsPerDay)
  /\ UNCHANGED <<fn, args>>

NextOptimizations == ReturnOptimizations

SpecOptimizations == InitOptimizations /\ [][NextOptimizations]_vars


(***************************************************************************)
(* calculateMonthlyCosts: every workflow is copied with its runs and its   *)
(* minutes per month added, the copies are summed, and the total is set    *)
(* against the budgets and the plan limits.  The report is a record whose  *)
(* integer fields are integers and whose quotients and costs are exact     *)
(* rationals; a breakdown entry carries the name and the minutes per run   *)
(* as the values read from the workflow.                                   *)
(***************************************************************************)
FREE_TIER_MINUTES == 2000

TEAM_TIER_MINUTES == 3000

COST_PER_MINUTE == <<8, 1000>>

TARGET_BUDGET_MINUTES == 1000

STRETCH_BUDGET_MINUTES == 1500

TEAM_MONTHLY_COST == 4

\* wf.parsed || wf
ParsedOrSelf(wf) == IF Truthy(Get(wf, "parsed")) THEN Get(wf, "parsed") ELSE wf

\* Math.ceil(wf.estimatedDuration * runsPerMonth)
MinutesPerMonth(wf, runsPerMonth) ==
  CeilInt(RMul(Get(wf, "estimatedDuration").n, R(runsPerMonth)))

\* { ...wf, runsPerMonth, minutesPerMonth }
Enriched(wf, runsPerMonth) ==
  With(With(wf, "runsPerMonth", Num(R(runsPerMonth))),
       "minutesPerMonth", Num(R(MinutesPerMonth(wf, runsPerMonth))))

EnrichedWorkflow(wf, commitsPerDay, options) ==
  Enriched(wf, estimateWorkflowRunsPerMonth(ParsedOrSelf(wf), commitsPerDay, options))

EnrichedWorkflows(workflows, commitsPerDay, options) ==
  [i \in 1..Len(workflows) |-> EnrichedWorkflow(workflows[i], commitsPerDay, options)]

\* reduce((total, wf) => total + wf[field], 0)
RECURSIVE ReduceTotal(_, _)
ReduceTotal(enrichedWorkflows, field) ==
  IF enrichedWorkflows = <<>> THEN 0
  ELSE CeilInt(Get(Head(enrichedWorkflows), field).n)
         + ReduceTotal(Tail(enrichedWorkflows), field)

BreakdownEntry(wf) ==
  [ name            |-> Get(wf, "name"),
    minutesPerRun   |-> Get(wf, "estimatedDuration"),
    runsPerMonth    |-> CeilInt(Get(wf, "runsPerMonth").n),
    minutesPerMonth |-> CeilInt(Get(wf, "minutesPerMonth").n) ]

Breakdown_LastFirst(enrichedWorkflows) ==
  [i \in 1..Len(enrichedWorkflows) |->
     BreakdownEntry(enrichedWorkflows[Len(enrichedWorkflows) + 1 - i])]

\* enrichedWorkflows.map(wf => ({ ... }))
Breakdown(enrichedWorkflows) ==
  [i \in 1..Len(enrichedWorkflows) |-> BreakdownEntry(enrichedWorkflows[i])]

\* Math.max(0, minutesPerMonth - limit)
Overage_Unfloored(minutesPerMonth, limit) == minutesPerMonth - limit

Overage(minutesPerMonth, limit) ==
  IF minutesPerMonth - limit > 0 THEN minutesPerMonth - limit ELSE 0

\* mutant: a month of exactly the limit is not within the limit
Tier_BelowLimit(minutesPerMonth, limit) ==
  [ limit       |-> limit,
    overage     |-> Overage(minutesPerMonth, limit),
    cost        |-> RMul(R(Overage(minutesPerMonth, limit)), COST_PER_MINUTE),
    withinLimit |-> minutesPerMonth < limit ]

Tier(minutesPerMonth, limit) ==
  [ limit       |-> limit,
    overage     |-> Overage(minutesPerMonth, limit),
    cost        |-> RMul(R(Overage(minutesPerMonth, limit)), COST_PER_MINUTE),
    withinLimit |-> minutesPerMonth <= limit ]

TeamTier(tier) ==
  [ limit       |-> tier.limit,
    overage     |-> tier.overage,
    cost        |-> tier.cost,
    withinLimit |-> tier.withinLimit,
    monthlyCost |-> TEAM_MONTHLY_COST ]

Budgets(minutesPerMonth) ==
  [ target        |-> TARGET_BUDGET_MINUTES,
    stretch       |-> STRETCH_BUDGET_MINUTES,
    withinTarget  |-> minutesPerMonth <= TARGET_BUDGET_MINUTES,
    withinStretch |-> minutesPerMonth <= STRETCH_BUDGET_MINUTES ]

CostReport(enrichedWorkflows, totalWorkflowRunsPerMonth, minutesPerMonth) ==
  [ minutesPerMonth    |-> minutesPerMonth,
    minutesPerDay      |-> RDiv(R(minutesPerMonth), R(DAYS_PER_MONTH)),
    workflowRunsPerDay |-> RDiv(R(totalWorkflowRunsPerMonth), R(DAYS_PER_MONTH)),
    breakdown          |-> Breakdown(enrichedWorkflows),
    budgets            |-> Budgets(minutesPerMonth),
    tiers              |-> [ free |-> Tier(minutesPerMonth, FREE_TIER_MINUTES),
                             team |-> TeamTier(Tier(minutesPerMonth, TEAM_TIER_MINUTES)) ] ]

CostReportFor(enrichedWorkflows) ==
  CostReport(enrichedWorkflows,
             ReduceTotal(enrichedWorkflows, "runsPerMonth"),
             ReduceTotal(enrichedWorkflows, "minutesPerMonth"))

calculateMonthlyCosts(workflows, commitsPerDay, options) ==
  CHOOSE report \in
    { CostReportFor(enrichedWorkflows) :
        enrichedWorkflows \in { EnrichedWorkflows(workflows, commitsPerDay, options) } } :
    TRUE

(***************************************************************************)
(* Inputs of the cost specification: lists of at most MaxWorkflows         *)
(* workflow results, each either a result of the analysis (with its parsed *)
(* workflow) or a bare record of a name and a duration, with or without    *)
(* triggers of its own; commit rates as above; no tuning or one.           *)
(***************************************************************************)
CostDurations == { 0, 50, 100 }

CostOnConfigs ==
  { Undefined,
    Literal([push |-> Literal([branches |-> BranchList]), pull_request |-> Null]),
    Literal([schedule |-> Arr(<< CronEntry(DailyCron) >>)]) }

BareRecord(name, duration, on) ==
  Literal([name |-> Str(name), estimatedDuration |-> Num(R(duration)), on |-> on])

CostRecords ==
  { WorkflowRecord(n, d, o, Undefined) :
      n \in WorkflowNames, d \in CostDurations, o \in CostOnConfigs }
    \cup { BareRecord(<<"c", "i", ".", "y", "m", "l">>, 100, Undefined),
           BareRecord(<<"t", "e", "s", "t", ".", "y", "m", "l">>, 10, Literal([workflow_dispatch |-> Null])) }

CostWorkflowLists == UNION { [1..n -> CostRecords] : n \in 0..MaxWorkflows }

CostOptions == { EmptyObj, TuningChoice(Num(<<1, 2>>), Num(R(3)), Num(R(2))) }

InitCosts ==
  /\ pc = "called"
  /\ fn = "calculateMonthlyCosts"
  /\ args \in { [workflows |-> w, commitsPerDay |-> c, options |-> o] :
                  w \in CostWorkflowLists, c \in CommitRates, o \in CostOptions }
  /\ ret = Undefined

ReturnCosts ==
  /\ pc = "called"
  /\ fn = "calculateMonthlyCosts"
  /\ pc' = "returned"
  /\ ret' = calculateMonthlyCosts(args.workflows, args.commitsPerDay, args.options)
  /\ UNCHANGED <<fn, args>>

NextCosts == ReturnCosts

SpecCosts == InitCosts /\ [][NextCosts]_vars

(***************************************************************************)
(* Both report functions, called twice on the same arguments.  A call      *)
(* leaves behind its result and the workflows it was given, as they are    *)
(* after the call: calculateMonthlyCosts builds its enriched workflows     *)
(* with map and an object spread, analyzeOptimizations only reads its      *)
(* workflows and sorts the array it built itself.                          *)
(***************************************************************************)
WorkflowsAfterCosts_Assigned(workflows, enrichedWorkflows) == enrichedWorkflows

\* workflows.map(wf => ({ ...wf, runsPerMonth, minutesPerMonth })): a new
\* array of new objects; nothing is assigned to workflows or its elements
WorkflowsAfterCosts(workflows, enrichedWorkflows) == workflows

\* for (const wf of workflows) reads; recommendations.sort sorts the local array
WorkflowsAfterOptimizations(workflows, recommendations) == workflows

TwiceRecords == { w \in RecordSamples : Get(w, "estimatedDuration") = Num(R(10)) }

TwiceLists == UNION { [1..n -> TwiceRecords] : n \in 0..MaxWorkflows }

InitTwice ==
  /\ pc = "called"
  /\ fn \in { "calculateMonthlyCosts", "analyzeOptimizations" }
  /\ args \in { [workflows |-> w, commitsPerDay |-> c, options |-> o] :
                  w \in TwiceLists, c \in CommitRates, o \in CostOptions }
  /\ ret = <<>>

CallCosts ==
  /\ pc \in { "called", "called again" }
  /\ fn = "calculateMonthlyCosts"
  /\ pc' = IF pc = "called" THEN "called again" ELSE "returned"
  /\ ret' = Append(ret, calculateMonthlyCosts(args.workflows, args.commitsPerDay,
                                              args.options))
  /\ args' = [args EXCEPT !.workflows =
                WorkflowsAfterCosts(args.workflows,
                                    EnrichedWorkflows(args.workflows, args.commitsPerDay,
                                                      args.options))]
  /\ UNCHANGED fn

CallOptimizations ==
  /\ pc \in { "called", "called again" }
  /\ fn = "analyzeOptimizations"
  /\ pc' = IF pc = "called" THEN "called again" ELSE "returned"
  /\ ret' = Append(ret, analyzeOptimizations(args.workflows, args.commitsPerDay))
  /\ args' = [args EXCEPT !.workflows =
                WorkflowsAfterOptimizations(args.workflows, ret'[Len(ret')])]
  /\ UNCHANGED fn

NextTwice == CallCosts \/ CallOptimizations

SpecTwice == InitTwice /\ [][NextTwice]_vars

(***************************************************************************)
(* The cost report and the recommendations for the same workflows, commit  *)
(* rate and tuning options: calculateMonthlyCosts is called, then          *)
(* analyzeOptimizations, which has no options parameter.  ret collects the *)
(* two results.                                                            *)
(***************************************************************************)
BothOnConfigs ==
  { Literal([push |-> Literal([branches |-> BranchList])]),
    Literal([pull_request |-> Null]),
    Literal([push |-> Null, pull_request |-> Null]),
    Literal([schedule |-> Arr(<< CronEntry(DailyCron) >>)]),
    Literal([workflow_dispatch |-> Null]),
    Literal([release |-> Null]) }

BothRecords ==
  { WorkflowRecord(n, 10, o, Literal([test |-> InstallJob])) :
      n \in WorkflowNames, o \in BothOnConfigs }

BothLists == UNION { [1..n -> BothRecords] : n \in 0..MaxWorkflows }

InitBoth ==
  /\ pc = "called"
  /\ fn = "calculateMonthlyCosts"
  /\ args \in { [workflows |-> w, commitsPerDay |-> c, options |-> o] :
                  w \in BothLists, c \in CommitRates, o \in TuningOptions }
  /\ ret = <<>>

ReportCosts ==
  /\ pc = "called"
  /\ fn = "calculateMonthlyCosts"
  /\ ret' = << calculateMonthlyCosts(args.workflows, args.commitsPerDay, args.options) >>
  /\ pc' = "costs returned"
  /\ fn' = "analyzeOptimizations"
  /\ UNCHANGED args

ReportOptimizations ==
  /\ pc = "costs returned"
  /\ fn = "analyzeOptimizations"
  /\ ret' = Append(ret, analyzeOptimizations(args.workflows, args.commitsPerDay))
  /\ pc' = "both returned"
  /\ UNCHANGED <<fn, args>>

NextBoth == ReportCosts \/ ReportOptimizations

SpecBoth == InitBoth /\ [][NextBoth]_vars

(***************************************************************************)
(* ProjectMaturityDetector.detect: the maturity level for the statistics   *)
(* of analyzeProject, which reads them from the project directory; here    *)
(* the statistics are any counts up to the bounds and any two flags.       *)
(***************************************************************************)
MIN_BOOTSTRAP_FILES == 3

MIN_PRODUCTION_FILES == 10

MIN_PRODUCTION_TESTS == 3

MaxSourceFiles == 12

MaxTestFiles == 4

\* mutant: any test file is enough for production-ready
detect_AnyTest(stats) ==
  IF stats.totalSourceFiles = 0 THEN "minimal"
  ELSE IF stats.totalSourceFiles < MIN_BOOTSTRAP_FILES THEN "bootstrap"
  ELSE IF /\ stats.testFiles > 0
          /\ stats.totalSourceFiles >= MIN_PRODUCTION_FILES
          /\ (stats.hasDocumentation \/ stats.hasDependencies)
  THEN "production-ready"
  ELSE "development"

\* the if / else-if chain of detect, branch by branch
detect(stats) ==
  IF stats.totalSourceFiles = 0 THEN "minimal"
  ELSE IF /\ stats.totalSourceFiles < MIN_BOOTSTRAP_FILES
          /\ stats.testFiles = 0
  THEN "bootstrap"
  ELSE IF /\ stats.totalSourceFiles < MIN_BOOTSTRAP_FILES
          /\ stats.testFiles > 0
  THEN "bootstrap"
  ELSE IF /\ stats.testFiles > 0
          /\ stats.totalSourceFiles >= MIN_BOOTSTRAP_FILES
          /\ stats.totalSourceFiles < MIN_PRODUCTION_FILES
  THEN "development"
  ELSE IF /\ stats.testFiles >= MIN_PRODUCTION_TESTS
          /\ stats.totalSourceFiles >= MIN_PRODUCTION_FILES
          /\ (stats.hasDocumentation \/ stats.hasDependencies)
  THEN "production-ready"
  ELSE IF stats.totalSourceFiles >= MIN_BOOTSTRAP_FILES THEN "development"
  ELSE "minimal"

\* the statistics analyzeProject can return
ProjectStats ==
  [ totalSourceFiles : 0..MaxSourceFiles,
    testFiles        : 0..MaxTestFiles,
    hasDocumentation : BOOLEAN,
    hasDependencies  : BOOLEAN ]

InitMaturity ==
  /\ pc = "called"
  /\ fn = "detect"
  /\ args \in { [stats |-> s] : s \in ProjectStats }
  /\ ret = Undefined

ReturnMaturity ==
  /\ pc = "called"
  /\ fn = "detect"
  /\ pc' = "returned"
  /\ ret' = detect(args.stats)
  /\ UNCHANGED <<fn, args>>

NextMaturity == ReturnMaturity

SpecMaturity == InitMaturity /\ [][NextMaturity]_vars

(***************************************************************************)
(* handleAnalyzeCi: the steps of the command, one action each.  args is    *)
(* what the handler finds around it: the files of the workflow directory   *)
(* in the order of readdirSync, each with the outcome of reading, parsing  *)
(* and estimating it, whether listing the directory throws, and the commit *)
(* rate getCommitFrequency returns.  ret holds the handler's locals, the   *)
(* report it printed and the status process.exit was called with; the two  *)
(* results of the core are held as the calls that give them.  pc is the    *)
(* step to run next.                                                       *)
(***************************************************************************)
MaxFiles == 2

FileNames == << <<"c", "i", ".", "y", "m", "l">>, <<"r", "e", "l", "e", "a", "s", "e", ".", "y", "m", "l">>, <<"n", "i", "g", "h", "t", "l", "y", ".", "y", "a", "m", "l">> >>

\* what yaml.load returns for the files that parse to a workflow
ParsedWorkflows ==
  { Literal([on   |-> Literal([push |-> Literal([branches |-> BranchList])]),
             jobs |-> Literal([test |-> PlainJob])]),
    Literal([on   |-> Literal([schedule |-> Arr(<< CronEntry(DailyCron) >>)]),
             jobs |-> Literal([test |-> MatrixJob(3, 2)])]) }

\* readFileSync throws, yaml.load throws, estimateWorkflowDuration throws on
\* the parsed value (a null document, a job without a body), or the file
\* gives a workflow
FileOutcomes ==
  { [outcome |-> o, parsed |-> Undefined] : o \in { "read fails", "parse fails" } }
    \cup { [outcome |-> "estimate fails", parsed |-> Null] }
    \cup { [outcome |-> "parsed", parsed |-> w] : w \in ParsedWorkflows }

Directories == UNION { [1..n -> FileOutcomes] : n \in 0..MaxFiles }

\* { commitsPerDay: 0 }, Math.max(commitsPerDay, 0.5) and the default of 1
HandlerCommitRates == { <<0, 4>>, <<2, 4>>, <<4, 4>> }

WorkflowPath(name) == <<".", "g", "i", "t", "h", "u", "b", "/", "w", "o", "r", "k", "f", "l", "o", "w", "s", "/">> \o name

\* { name: wf.name, path: wf.path, estimatedDuration, parsed }
ParsedRecord(name, parsed) ==
  CHOOSE record \in
    { Literal([ name              |-> Str(name),
                path              |-> Str(WorkflowPath(name)),
                estimatedDuration |-> Num(R(estimatedDuration)),
                parsed            |-> parsed ]) :
        estimatedDuration \in { estimateWorkflowDuration(parsed) } } : TRUE

\* mutant: the record is pushed before the duration is estimated
PushedWorkflows_BeforeEstimate(workflows, name, file) ==
  IF file.outcome \in { "parsed", "estimate fails" }
  THEN Append(workflows, ParsedRecord(name, file.parsed))
  ELSE workflows

\* the body of the try in the loop over workflowFiles: the push is reached
\* when none of readFileSync, yaml.load and estimateWorkflowDuration throws
PushedWorkflows(workflows, name, file) ==
  IF file.outcome = "parsed"
  THEN Append(workflows, ParsedRecord(name, file.parsed))
  ELSE workflows

\* console.warn in the catch of the loop
Warned(warnings, name, file) ==
  IF file.outcome = "parsed" THEN warnings ELSE Append(warnings, name)

InitAnalyze ==
  /\ pc = "discover"
  /\ fn = "handleAnalyzeCi"
  /\ args \in [ files : Directories, discoverThrows : BOOLEAN,
                commitsPerDay : HandlerCommitRates ]
  /\ ret = [ workflowFiles |-> <<>>, parsedFiles |-> 0, workflows |-> <<>>,
             warnings |-> <<>>, commitStats |-> <<>>, costs |-> <<>>,
             optimizations |-> <<>>, report |-> <<>>, exit |-> <<>> ]

\* Step 1; an empty list ends the run with process.exit(1); an error of
\* readdirSync goes to the catch of the handler
StepDiscover ==
  /\ pc = "discover"
  /\ fn = "handleAnalyzeCi"
  /\ IF args.discoverThrows
     THEN pc' = "catch" /\ UNCHANGED ret
     ELSE /\ ret' = [ret EXCEPT
                       !.workflowFiles = [i \in 1..Len(args.files) |-> FileNames[i]],
                       !.exit = IF args.files = <<>> THEN <<1>> ELSE <<>>]
          /\ pc' = IF args.files = <<>> THEN "exited" ELSE "parse"
  /\ UNCHANGED <<fn, args>>

\* Step 2, one file of the loop
StepParse ==
  /\ pc = "parse"
  /\ ret.parsedFiles < Len(ret.workflowFiles)
  /\ ret' = [ret EXCEPT
               !.parsedFiles = @ + 1,
               !.workflows = PushedWorkflows(@, ret.workflowFiles[ret.parsedFiles + 1],
                                             args.files[ret.parsedFiles + 1]),
               !.warnings = Warned(@, ret.workflowFiles[ret.parsedFiles + 1],
                                   args.files[ret.parsedFiles + 1])]
  /\ UNCHANGED <<pc, fn, args>>

\* Step 3, after the last file
StepCommitFrequency ==
  /\ pc = "parse"
  /\ ret.parsedFiles = Len(ret.workflowFiles)
  /\ ret' = [ret EXCEPT !.commitStats = << args.commitsPerDay >>]
  /\ pc' = "costs"
  /\ UNCHANGED <<fn, args>>

\* the value of a call of calculateMonthlyCosts
CostsOf(call) == calculateMonthlyCosts(call.workflows, call.commitsPerDay, call.options)

\* the value of a call of analyzeOptimizations
OptimizationsOf(call) == analyzeOptimizations(call.workflows, call.commitsPerDay)

\* Step 4: costs is the call with its arguments; the function is pure and
\* its arguments are not changed afterwards, so CostsOf gives what the
\* handler holds
StepCosts ==
  /\ pc = "costs"
  /\ ret' = [ret EXCEPT !.costs =
               << [ workflows |-> ret.workflows, commitsPerDay |-> ret.commitStats[1],
                    options |-> EmptyObj ] >>]
  /\ pc' = "optimizations"
  /\ UNCHANGED <<fn, args>>

\* Step 5
StepOptimizations ==
  /\ pc = "optimizations"
  /\ ret' = [ret EXCEPT !.optimizations =
               << [ workflows |-> ret.workflows, commitsPerDay |-> ret.commitStats[1] ] >>]
  /\ pc' = "report"
  /\ UNCHANGED <<fn, args>>

\* Step 6: generateReport({ workflows, costs, commitStats, optimizations })
StepReport ==
  /\ pc = "report"
  /\ ret' = [ret EXCEPT !.report =
               << [ workflows     |-> ret.workflows,
                    costs         |-> ret.costs[1],
                    commitStats   |-> ret.commitStats[1],
                    optimizations |-> ret.optimizations[1] ] >>]
  /\ pc' = "exit"
  /\ UNCHANGED <<fn, args>>

\* process.exit(0)
ExitSuccess ==
  /\ pc = "exit"
  /\ ret' = [ret EXCEPT !.exit = <<0>>]
  /\ pc' = "exited"
  /\ UNCHANGED <<fn, args>>

\* the catch of the handler: process.exit(1)
CatchError ==
  /\ pc = "catch"
  /\ ret' = [ret EXCEPT !.exit = <<1>>]
  /\ pc' = "exited"
  /\ UNCHANGED <<fn, args>>

NextAnalyze ==
  \/ StepDiscover
  \/ StepParse
  \/ StepCommitFrequency
  \/ StepCosts
  \/ StepOptimizations
  \/ StepReport
  \/ ExitSuccess
  \/ CatchError

SpecAnalyze == InitAnalyze /\ [][NextAnalyze]_vars

\* the handler is one synchronous function: it runs on until process.exit
FairAnalyze == SpecAnalyze /\ WF_vars(NextAnalyze)

(***************************************************************************)
(* Claims about the cron estimators.                                       *)
(***************************************************************************)
StarCron == Join(<< <<"*">>, <<"*">>, <<"*">>, <<"*">>, <<"*">> >>, <<" ">>)

WeeklyCron == Join(<< <<"0">>, <<"2">>, <<"*">>, <<"*">>, <<"0">> >>, <<" ">>)

MonthlyCron == Join(<< <<"0">>, <<"0">>, <<"1">>, <<"*">>, <<"*">> >>, <<" ">>)

SixFieldCron ==
  Join(<< <<"0">>, <<"2">>, <<"*">>, <<"*">>, <<"*">>, <<"*">> >>, <<" ">>)

WellFormedEntries == { CronEntry(c) : c \in FiveFieldCrons \cup PaddedCrons }

ScheduleReturned ==
  pc = "returned" /\ fn = "estimateScheduleRunsPerMonth"

\* the baseline cadence as the claim words it
ClaimedBaseline(fields) ==
  IF fields[5] # <<"*">> THEN 4
  ELSE IF fields[3] = <<"*">> /\ fields[4] = <<"*">> THEN 30
  ELSE 1

\* max(1, ceil(baseline x timeSlots)) of one well-formed entry
ClaimedEntryRuns(entry) ==
  LET fields    == SplitWs(Trim(entry.f.cron.s))
      product   == RMul(countCronFieldSlots(fields[1], 60),
                        countCronFieldSlots(fields[2], 24))
      timeSlots == IF RLt(product, R(1)) THEN R(1) ELSE product
      runs      == CeilInt(RMul(R(ClaimedBaseline(fields)), timeSlots))
  IN  IF runs < 1 THEN 1 ELSE runs

RECURSIVE ClaimedSum(_)
ClaimedSum(entries) ==
  IF entries = <<>> THEN 0
  ELSE ClaimedEntryRuns(Head(entries)) + ClaimedSum(Tail(entries))

\* C7: over a list of 5-field cron entries the estimate is the sum over the
\* entries of max(1, ceil(baseline x timeSlots)), with baseline 30 when the
\* three day fields are all '*', 4 when day-of-week is restricted and 1
\* otherwise; '* * * * *' gives 30, '0 2 * * 0' gives 4, '0 0 1 * *' gives 1;
\* the estimate of a concatenation is the sum of the estimates of its parts.
C7_ScheduleRunsFormula ==
  (/\ ScheduleReturned
   /\ IsArray(args.scheduleConfig)
   /\ \A i \in DOMAIN args.scheduleConfig.items :
        args.scheduleConfig.items[i] \in WellFormedEntries)
  => LET entries == args.scheduleConfig.items
     IN  /\ ret = ClaimedSum(entries)
         /\ entries = << CronEntry(StarCron) >> => ret = 30
         /\ entries = << CronEntry(WeeklyCron) >> => ret = 4
         /\ entries = << CronEntry(MonthlyCron) >> => ret = 1
         /\ \A k \in 0..Len(entries) :
              ret = estimateScheduleRunsPerMonth(Arr(SubSeq(entries, 1, k)))
                    + estimateScheduleRunsPerMonth(
                        Arr(SubSeq(entries, k + 1, Len(entries))))

\* C7 witness: a two-entry list has been estimated, one entry with every day
\* field free, the other with day-of-month and day-of-week both restricted
C7_Witness ==
  /\ ScheduleReturned
  /\ args.scheduleConfig =
       Arr(<< CronEntry(StarCron),
              CronEntry(Join(<< <<"0">>, <<"2">>, <<"1">>, <<"*">>, <<"0">> >>,
                             <<" ">>)) >>)
  /\ ret = 34

IsMalformed(entry) == entry \notin WellFormedEntries

RECURSIVE CountMalformed(_)
CountMalformed(entries) ==
  IF entries = <<>> THEN 0
  ELSE (IF IsMalformed(Head(entries)) THEN 1 ELSE 0) + CountMalformed(Tail(entries))

\* C8: every entry whose cron does not split into exactly 5 fields (too
\* few, too many, empty, missing or not a string) contributes exactly 4, and
\* the other entries of the list are counted as they are without it.
C8_MalformedEntryContributesFour ==
  /\ (ScheduleReturned /\ IsArray(args.scheduleConfig))
     => LET entries == args.scheduleConfig.items
            others  == SelectSeq(entries, LAMBDA e : ~IsMalformed(e))
        IN  ret = 4 * CountMalformed(entries)
                  + estimateScheduleRunsPerMonth(Arr(others))
  /\ (/\ ScheduleReturned
      /\ ~IsArray(args.scheduleConfig)
      /\ Truthy(args.scheduleConfig)
      /\ IsMalformed(args.scheduleConfig))
     => ret = 4

\* C8 witness: a list holding a six-field cron and a daily cron was estimated
C8_Witness ==
  /\ ScheduleReturned
  /\ args.scheduleConfig = Arr(<< CronEntry(SixFieldCron), CronEntry(StarCron) >>)
  /\ ret = 34

FieldReturned == pc = "returned" /\ fn = "countCronFieldSlots"

\* the step of a field without commas: the text between its first and second "/"
StepOf(field) == Number(Split(field, "/")[2])

BadStep(field) ==
  /\ ~Includes(field, <<",">>)
  /\ Includes(field, <<"/">>)
  /\ (~IsFinite(StepOf(field)) \/ RLe(StepOf(field), R(0)))

BadRange(field) ==
  /\ ~Includes(field, <<",">>)
  /\ ~Includes(field, <<"/">>)
  /\ Includes(field, <<"-">>)
  /\ LET bounds == Split(field, "-")
     IN  \/ ~IsFinite(Number(bounds[1]))
         \/ ~IsFinite(Number(bounds[2]))
         \/ RLt(Number(bounds[2]), Number(bounds[1]))

\* C9 as stated: countCronFieldSlots returns a finite integer >= 1 for every
\* field string and both widths; a zero, negative or non-numeric step yields
\* 1, a malformed range yields 1, a comma list yields at least its number of
\* parts.
C9_SlotsFiniteIntegerAtLeastOne ==
  FieldReturned
  => /\ IsInteger(ret)
     /\ RLe(R(1), ret)
     /\ BadStep(args.field) => REq(ret, R(1))
     /\ BadRange(args.field) => REq(ret, R(1))
     /\ Includes(args.field, <<",">>)
          => RLe(R(Len(Split(args.field, ","))), ret)

\* C9 amended: the result is a number >= 1 for every field string and both
\* widths, and an integer whenever the field holds no decimal point; a zero,
\* negative or non-numeric step yields 1, a malformed range yields 1, a
\* comma list yields at least its number of parts.
C9_SlotsAtLeastOne ==
  FieldReturned
  => /\ ~IsNaN(ret)
     /\ RLe(R(1), ret)
     /\ ~Includes(args.field, <<".">>) => IsInteger(ret)
     /\ BadStep(args.field) => REq(ret, R(1))
     /\ BadRange(args.field) => REq(ret, R(1))
     /\ Includes(args.field, <<",">>)
          => RLe(R(Len(Split(args.field, ","))), ret)

\* C9 witness: the range ".5-2" was counted as 2.5 slots
C9_Witness ==
  /\ FieldReturned
  /\ args.field = <<".", "5", "-", "2">>
  /\ REq(ret, <<5, 2>>)

(***************************************************************************)
(* Claims about estimateWorkflowRunsPerMonth.                              *)
(***************************************************************************)
RunsReturned == pc = "returned" /\ fn = "estimateWorkflowRunsPerMonth"

\* the normalized triggers of the workflow under analysis
Triggers == normalizeTriggers(Get(args.workflow, "on"))

TriggerKeys == DOMAIN Triggers.f

\* the value of a tunable: the override when one is supplied and not 0, else
\* the default
Tunable(name, default) ==
  IF HasOwn(args.options, name) /\ args.options.f[name].n[1] # 0
  THEN args.options.f[name].n
  ELSE R(default)

Max1(n) == IF n < 1 THEN 1 ELSE n

CommitsPerMonth == CeilInt(RMul(args.commitsPerDay, R(30)))

\* the estimate is the same for every commit rate
SameForEveryCommitRate ==
  \A c \in CommitRates :
    estimateWorkflowRunsPerMonth(args.workflow, c, args.options) = ret

\* the push trigger lists at least one tag pattern, no branches and no
\* branches-ignore
TagOnlyPush ==
  /\ "push" \in TriggerKeys
  /\ Triggers.f["push"].t = "object"
  /\ DOMAIN Triggers.f["push"].f = {"tags"}
  /\ Triggers.f["push"].f["tags"].t = "array"
  /\ Triggers.f["push"].f["tags"].items # <<>>

\* C1: estimateWorkflowRunsPerMonth returns an integer >= 1 for every
\* trigger declaration and every commitsPerDay >= 0, 0 included.
C1_RunsAtLeastOne ==
  RunsReturned => ret \in Int /\ ret >= 1

\* C1 witness: a workflow without triggers was estimated at 0 commits a day
C1_Witness ==
  /\ RunsReturned
  /\ TriggerKeys = {}
  /\ args.commitsPerDay = <<0, 4>>
  /\ ret = 1

\* C3 as stated: each release-type trigger present adds its own
\* releaseRunsPerMonth: exactly release and create give 2 x
\* releaseRunsPerMonth; tag-only push, release and create give 3 x.
C3_ReleaseTypesAddUp ==
  RunsReturned
  => /\ TriggerKeys = {"release", "create"}
          => REq(R(ret), RMul(R(2), Tunable("releaseRunsPerMonth", 1)))
     /\ (TriggerKeys = {"push", "release", "create"} /\ TagOnlyPush)
          => REq(R(ret), RMul(R(3), Tunable("releaseRunsPerMonth", 1)))

\* C3 amended: release-type triggers that co-occur contribute
\* releaseRunsPerMonth once: exactly release and create, or tag-only push,
\* release and create, give runsPerMonth = releaseRunsPerMonth.
C3_ReleaseTypesCountOnce ==
  (/\ RunsReturned
   /\ \/ TriggerKeys = {"release", "create"}
      \/ TriggerKeys = {"push", "release", "create"} /\ TagOnlyPush)
  => REq(R(ret), Tunable("releaseRunsPerMonth", 1))

\* C3 witness: release and create together, with releaseRunsPerMonth = 2,
\* were estimated at 2 runs
C3_Witness ==
  /\ RunsReturned
  /\ TriggerKeys = {"release", "create"}
  /\ HasOwn(args.options, "releaseRunsPerMonth")
  /\ args.options.f["releaseRunsPerMonth"] = Num(R(2))
  /\ ret = 2

\* the schedule trigger is declared with no entries
EmptySchedule ==
  "schedule" \in TriggerKeys /\ Triggers.f["schedule"] \in {Null, Arr(<<>>)}

NothingButDispatchContributes ==
  /\ "workflow_dispatch" \in TriggerKeys
  /\ TriggerKeys \cap {"push", "pull_request", "release", "create"} = {}

\* C4 as stated: with workflow_dispatch present and every other trigger
\* contributing 0 (no push, pull_request or release-type trigger, and no
\* schedule or a schedule with zero entries) the estimate is
\* max(1, manualRunsPerMonth) and does not depend on commitsPerDay.
C4_DispatchWhenNothingElseContributes ==
  (/\ RunsReturned
   /\ NothingButDispatchContributes
   /\ \/ "schedule" \notin TriggerKeys
      \/ Triggers.f["schedule"] = Arr(<<>>))
  => /\ REq(R(ret), RMax(R(1), Tunable("manualRunsPerMonth", 1)))
     /\ SameForEveryCommitRate

\* C4 amended: with workflow_dispatch present and none of push,
\* pull_request, schedule, release and create declared, the estimate is
\* max(1, manualRunsPerMonth) and does not depend on commitsPerDay; when a
\* schedule with zero entries is declared as well, the estimate is
\* max(1, commitsPerMonth).
C4_DispatchWhenNothingElseDeclared ==
  /\ (/\ RunsReturned
      /\ NothingButDispatchContributes
      /\ "schedule" \notin TriggerKeys)
     => /\ REq(R(ret), RMax(R(1), Tunable("manualRunsPerMonth", 1)))
        /\ SameForEveryCommitRate
  /\ (RunsReturned /\ NothingButDispatchContributes /\ EmptySchedule)
     => ret = Max1(CommitsPerMonth)

\* C4 witness: a dispatch-only workflow with manualRunsPerMonth = 3 was
\* estimated at 3 runs for one commit a day
C4_Witness ==
  /\ RunsReturned
  /\ TriggerKeys = {"workflow_dispatch"}
  /\ HasOwn(args.options, "manualRunsPerMonth")
  /\ args.options.f["manualRunsPerMonth"] = Num(R(3))
  /\ args.commitsPerDay = <<4, 4>>
  /\ ret = 3

\* C5: a workflow whose only trigger is a push listing at least one tag
\* pattern and no branches / branches-ignore has runsPerMonth =
\* releaseRunsPerMonth for every commitsPerDay.
C5_TagOnlyPushIgnoresCommits ==
  (RunsReturned /\ TriggerKeys = {"push"} /\ TagOnlyPush)
  => /\ REq(R(ret), Tunable("releaseRunsPerMonth", 1))
     /\ SameForEveryCommitRate

\* C5 witness: a tag-only push was estimated at 1 run for one commit a day
C5_Witness ==
  /\ RunsReturned
  /\ TriggerKeys = {"push"}
  /\ TagOnlyPush
  /\ args.options = EmptyObj
  /\ args.commitsPerDay = <<4, 4>>
  /\ ret = 1

\* C6 as stated: for every workflow whose only trigger is schedule,
\* runsPerMonth is the cron estimate of its schedule entries floored at 1,
\* and is the same for any two values of commitsPerDay.
C6_ScheduleOnlyIgnoresCommits ==
  (RunsReturned /\ TriggerKeys = {"schedule"})
  => /\ ret = Max1(estimateScheduleRunsPerMonth(Triggers.f["schedule"]))
     /\ SameForEveryCommitRate

\* C6 amended: for every workflow whose only trigger is a schedule with a
\* cron estimate of at least 1, runsPerMonth is that estimate and is the
\* same for any two values of commitsPerDay; a schedule-only workflow
\* whose schedule has no entries gets max(1, commitsPerMonth).
C6_NonEmptyScheduleIgnoresCommits ==
  /\ (/\ RunsReturned
      /\ TriggerKeys = {"schedule"}
      /\ estimateScheduleRunsPerMonth(Triggers.f["schedule"]) >= 1)
     => /\ ret = estimateScheduleRunsPerMonth(Triggers.f["schedule"])
        /\ SameForEveryCommitRate
  /\ (RunsReturned /\ TriggerKeys = {"schedule"} /\ EmptySchedule)
     => ret = Max1(CommitsPerMonth)

\* C6 witness: a weekly schedule was estimated at 4 runs for one commit a day
C6_Witness ==
  /\ RunsReturned
  /\ TriggerKeys = {"schedule"}
  /\ Triggers.f["schedule"] = Arr(<< CronEntry(WeeklyCron) >>)
  /\ args.commitsPerDay = <<4, 4>>
  /\ ret = 4

(***************************************************************************)
(* Claims about estimateWorkflowDuration.                                  *)
(***************************************************************************)
DurationReturned == pc = "returned" /\ fn = "estimateWorkflowDuration"

JobsOf(workflow) == Get(workflow, "jobs")

HasMatrixStrategy(job) ==
  HasOwn(job, "strategy") /\ HasOwn(job.f["strategy"], "matrix")

MatrixOf(job) == job.f["strategy"].f["matrix"]

\* the lengths of the array-valued axes of a matrix, as a bag: axis name to
\* length
AxisLengths(matrix) ==
  IF matrix.t # "object" THEN <<>>
  ELSE [k \in { a \in DOMAIN matrix.f : matrix.f[a].t = "array" } |->
          Len(matrix.f[k].items)]

\* the product of the values of a function with a finite domain
RECURSIVE Product(_)
Product(lengths) ==
  IF DOMAIN lengths = {} THEN 1
  ELSE LET k == CHOOSE a \in DOMAIN lengths : TRUE
       IN  lengths[k] * Product([a \in DOMAIN lengths \ {k} |-> lengths[a]])

ClaimedContribution(job) ==
  IF HasMatrixStrategy(job)
  THEN ClampedJobMinutes(job) * Product(AxisLengths(MatrixOf(job)))
  ELSE ClampedJobMinutes(job)

RECURSIVE ClaimedTotal(_)
ClaimedTotal(jobs) ==
  IF DOMAIN jobs.f = {} THEN 0
  ELSE LET k == CHOOSE a \in DOMAIN jobs.f : TRUE
       IN  ClaimedContribution(jobs.f[k])
           + ClaimedTotal(Obj([a \in DOMAIN jobs.f \ {k} |-> jobs.f[a]]))

\* C10: a job with a matrix strategy contributes its clamped minutes times
\* the product of the lengths of the array-valued axes of the matrix (axes
\* of 3 and 2 values give 6 times the minutes), axes that are not arrays
\* count for a factor of 1, and the duration is the sum of the
\* contributions of the jobs.
C10_MatrixMultipliesByProduct ==
  (DurationReturned /\ JobsOf(args.workflow).t = "object")
  => /\ ret = ClaimedTotal(JobsOf(args.workflow))
     /\ \A k \in DOMAIN JobsOf(args.workflow).f :
          LET job == JobsOf(args.workflow).f[k]
          IN  (/\ DOMAIN JobsOf(args.workflow).f = {k}
               /\ HasMatrixStrategy(job)
               /\ MatrixOf(job).t = "object"
               /\ Get(MatrixOf(job), "node") = Values(3)
               /\ Get(MatrixOf(job), "os") = Values(2))
              => ret = 6 * ClampedJobMinutes(job)

\* C10 witness: one job of 15 clamped minutes whose matrix has an axis of 3
\* values, an axis of 2 values and an axis that is not an array: 90 minutes
C10_Witness ==
  /\ DurationReturned
  /\ JobsOf(args.workflow).t = "object"
  /\ DOMAIN JobsOf(args.workflow).f = {"test"}
  /\ LET job == JobsOf(args.workflow).f["test"]
     IN  /\ HasMatrixStrategy(job)
         /\ MatrixOf(job).t = "object"
         /\ DOMAIN MatrixOf(job).f = {"node", "os", "include"}
         /\ Get(MatrixOf(job), "node") = Values(3)
         /\ Get(MatrixOf(job), "os") = Values(2)
         /\ ClampedJobMinutes(job) = 15
  /\ ret = 90

(***************************************************************************)
(* Claims about analyzeOptimizations.                                      *)
(***************************************************************************)
OptimizationsReturned == pc = "returned" /\ fn = "analyzeOptimizations"

\* what the detectors emitted, in discovery order
Emitted == EmittedRecommendations(args.workflows, args.commitsPerDay)

\* the place in the result of the i-th emitted recommendation: after those
\* with greater savings and after the earlier ones with equal savings
Rank(e, i) ==
  Cardinality({ j \in 1..Len(e) : e[j].potentialSavings > e[i].potentialSavings })
  + Cardinality({ j \in 1..(i - 1) :
                    e[j].potentialSavings = e[i].potentialSavings })
  + 1

IndexIn(seq, x) == CHOOSE i \in 1..Len(seq) : seq[i] = x

DistinctNames(workflows) ==
  \A i, j \in 1..Len(workflows) :
    Get(workflows[i], "name") = Get(workflows[j], "name") => i = j

\* the place of a recommendation in the discovery order: its workflow, then
\* the job detectors before frequency before conditional, then its job,
\* then caching before matrix
DiscoveryKey(workflows, r) ==
  << CHOOSE i \in 1..Len(workflows) : Get(workflows[i], "name").s = r.workflow,
     CASE r.type \in {"caching", "matrix"} -> 1
       [] r.type = "frequency" -> 2
       [] r.type = "conditional" -> 3,
     IF r.type \in {"caching", "matrix"} THEN IndexIn(JobNames, r.job) ELSE 0,
     IF r.type = "matrix" THEN 1 ELSE 0 >>

RECURSIVE KeyLess(_, _)
KeyLess(a, b) ==
  /\ a # <<>>
  /\ \/ Head(a) < Head(b)
     \/ Head(a) = Head(b) /\ KeyLess(Tail(a), Tail(b))

\* C2: the returned list is a permutation of the emitted recommendations,
\* every adjacent pair has earlier.potentialSavings >=
\* later.potentialSavings, and recommendations with equal potentialSavings
\* keep their discovery order, which is workflow order, then the job
\* detectors (caching before matrix, job by job), then frequency, then
\* conditional.
C2_SortedBySavingsStable ==
  OptimizationsReturned
  => LET e == Emitted
     IN  /\ Len(ret) = Len(e)
         /\ \A i \in 1..Len(e) : ret[Rank(e, i)] = e[i]
         /\ \A i \in 1..(Len(ret) - 1) :
              ret[i].potentialSavings >= ret[i + 1].potentialSavings
         /\ DistinctNames(args.workflows)
            => \A i, j \in 1..Len(e) :
                 i < j => KeyLess(DiscoveryKey(args.workflows, e[i]),
                                  DiscoveryKey(args.workflows, e[j]))

\* C2 witness: two workflows with different names; a recommendation is
\* moved ahead of one emitted before it, two recommendations of different
\* workflows tie, and two of one workflow tie
C2_Witness ==
  /\ OptimizationsReturned
  /\ Len(args.workflows) = 2
  /\ DistinctNames(args.workflows)
  /\ LET e == Emitted
     IN  /\ \E i, j \in 1..Len(e) :
              i < j /\ e[i].potentialSavings < e[j].potentialSavings
         /\ \E i, j \in 1..Len(ret) :
              /\ i < j
              /\ ret[i].potentialSavings = ret[j].potentialSavings
              /\ ret[i].workflow # ret[j].workflow
         /\ \E i, j \in 1..Len(ret) :
              /\ i < j
              /\ ret[i].potentialSavings = ret[j].potentialSavings
              /\ ret[i].workflow = ret[j].workflow
              /\ ret[i].type # ret[j].type

\* the minutes of a job's steps with nothing capped: 5 and the weights of
\* the steps of a list
UncappedMinutes(job) ==
  IF HasOwn(job, "steps") /\ job.f["steps"].t = "array"
  THEN 5 + SumStepMinutes(job.f["steps"].items)
  ELSE 5

CappedAt60(n) == IF n > 60 THEN 60 ELSE n

SingleJob == JobsOf(args.workflow).f["test"]

HasSingleJob ==
  /\ JobsOf(args.workflow).t = "object"
  /\ DOMAIN JobsOf(args.workflow).f = {"test"}

\* C11: the minutes of every job before the matrix factor are between 5 and
\* 60 and are the uncapped minutes capped at 60; a workflow of one job lasts
\* those minutes times the matrix factor, so it lasts more than 60 minutes
\* only when the job has a matrix of more than one combination.
C11_CapBeforeMatrix ==
  (DurationReturned /\ JobsOf(args.workflow).t = "object")
  => /\ \A k \in DOMAIN JobsOf(args.workflow).f :
          LET job == JobsOf(args.workflow).f[k]
          IN  /\ ClampedJobMinutes(job) >= 5
              /\ ClampedJobMinutes(job) <= 60
              /\ ClampedJobMinutes(job) = CappedAt60(UncappedMinutes(job))
     /\ HasSingleJob
        => /\ ret = CappedAt60(UncappedMinutes(SingleJob))
                    * (IF HasMatrixStrategy(SingleJob)
                       THEN Product(AxisLengths(MatrixOf(SingleJob)))
                       ELSE 1)
           /\ ret > 60
              => /\ HasMatrixStrategy(SingleJob)
                 /\ Product(AxisLengths(MatrixOf(SingleJob))) > 1

\* C11 witness: one job whose steps add up to more than 60 minutes, with a
\* matrix of 6 combinations: 6 times 60 minutes
C11_Witness ==
  /\ DurationReturned
  /\ HasSingleJob
  /\ UncappedMinutes(SingleJob) > 60
  /\ HasMatrixStrategy(SingleJob)
  /\ Product(AxisLengths(MatrixOf(SingleJob))) = 6
  /\ ret = 360

(***************************************************************************)
(* Claims about the monthly costs.                                         *)
(***************************************************************************)
CostsReturned == fn = "calculateMonthlyCosts" /\ pc = "returned"

DurationOf(wf) == Get(wf, "estimatedDuration").n

RECURSIVE SumOf(_)
SumOf(numbers) == IF numbers = <<>> THEN 0 ELSE Head(numbers) + SumOf(Tail(numbers))

Max0(n) == IF n > 0 THEN n ELSE 0

PerMille(n) == <<n * 8, 1000>>

PricingExample ==
  /\ args.workflows = << BareRecord(<<"c", "i", ".", "y", "m", "l">>, 100, Undefined) >>
  /\ args.commitsPerDay = <<4, 4>>
  /\ args.options = EmptyObj

\* C12: every workflow's minutes per month are the ceiling of its duration
\* times its runs per month; the reported minutesPerMonth is their sum; the
\* overage of the free plan is max(0, total - 2000) and that of the team plan
\* max(0, total - 3000), each costing 0.008 per minute; one 100-minute
\* workflow without trigger information at one commit a day totals 3000
\* minutes, with a free overage of 1000 costing exactly 8.
C12_MinutesOverageAndCost ==
  CostsReturned =>
    /\ Len(ret.breakdown) = Len(args.workflows)
    /\ \A i \in 1..Len(args.workflows) :
         ret.breakdown[i].minutesPerMonth =
           CeilInt(RMul(DurationOf(args.workflows[i]), R(ret.breakdown[i].runsPerMonth)))
    /\ ret.minutesPerMonth =
         SumOf([i \in 1..Len(ret.breakdown) |-> ret.breakdown[i].minutesPerMonth])
    /\ ret.tiers.free.overage = Max0(ret.minutesPerMonth - 2000)
    /\ ret.tiers.team.overage = Max0(ret.minutesPerMonth - 3000)
    /\ REq(ret.tiers.free.cost, PerMille(ret.tiers.free.overage))
    /\ REq(ret.tiers.team.cost, PerMille(ret.tiers.team.overage))
    /\ PricingExample =>
         /\ ret.minutesPerMonth = 3000
         /\ ret.tiers.free.overage = 1000
         /\ REq(ret.tiers.free.cost, R(8))

C12_Witness ==
  /\ CostsReturned
  /\ PricingExample
  /\ ret.minutesPerMonth = 3000
  /\ ret.tiers.free.overage = 1000
  /\ ret.tiers.team.overage = 0
  /\ REq(ret.tiers.free.cost, R(8))

\* C13: the breakdown has exactly one entry for every input workflow, in the
\* order of the input; entry i carries the name and the duration of workflow
\* i as its name and minutesPerRun, and its minutesPerMonth is the ceiling of
\* minutesPerRun times its runsPerMonth.
C13_BreakdownFollowsInput ==
  CostsReturned =>
    /\ DOMAIN ret.breakdown = 1..Len(args.workflows)
    /\ \A i \in DOMAIN ret.breakdown :
         /\ ret.breakdown[i].name = Get(args.workflows[i], "name")
         /\ ret.breakdown[i].minutesPerRun = Get(args.workflows[i], "estimatedDuration")
         /\ ret.breakdown[i].minutesPerMonth =
              CeilInt(RMul(ret.breakdown[i].minutesPerRun.n,
                           R(ret.breakdown[i].runsPerMonth)))

C13_Witness ==
  /\ CostsReturned
  /\ Len(args.workflows) = 2
  /\ Get(args.workflows[1], "name") = Str(<<"r", "e", "l", "e", "a", "s", "e", ".", "y", "m", "l">>)
  /\ Get(args.workflows[2], "name") = Str(<<"c", "i", ".", "y", "m", "l">>)
  /\ DurationOf(args.workflows[1]) = R(100)
  /\ DurationOf(args.workflows[2]) = R(50)
  /\ ret.breakdown[1].name = Str(<<"r", "e", "l", "e", "a", "s", "e", ".", "y", "m", "l">>)
  /\ ret.breakdown[1].minutesPerMonth = 100 * ret.breakdown[1].runsPerMonth
  /\ ret.breakdown[2].minutesPerRun = Num(R(50))
  /\ ret.breakdown[2].runsPerMonth > 1

\* the parsed workflow of a workflow result, its jobs and its name
ParsedOf(wf) == Get(wf, "parsed")

NameOf(wf) == Get(wf, "name").s

HasJobs(wf) == Get(ParsedOf(wf), "jobs").t = "object"

JobsIn(wf) == Get(ParsedOf(wf), "jobs").f

\* the runs per month the detectors work with
RunsOf(wf) == estimateWorkflowRunsPerMonth(ParsedOf(wf), args.commitsPerDay, EmptyObj)

StepsOf(job) ==
  IF Get(job, "steps").t = "array" THEN Get(job, "steps").items ELSE <<>>

RunsCommand(job, commands) ==
  \E i \in 1..Len(StepsOf(job)) :
    /\ Get(StepsOf(job)[i], "run").t = "string"
    /\ \E c \in commands : Includes(Get(StepsOf(job)[i], "run").s, c)

UsesAction(job, actions) ==
  \E i \in 1..Len(StepsOf(job)) :
    /\ Get(StepsOf(job)[i], "uses").t = "string"
    /\ \E a \in actions : Includes(Get(StepsOf(job)[i], "uses").s, a)

InstallCommands == { <<"n", "p", "m", " ", "i", "n", "s", "t", "a", "l", "l">>, <<"y", "a", "r", "n", " ", "i", "n", "s", "t", "a", "l", "l">>, <<"p", "n", "p", "m", " ", "i", "n", "s", "t", "a", "l", "l">>, <<"p", "i", "p", " ", "i", "n", "s", "t", "a", "l", "l">> }

CacheAction == <<"a", "c", "t", "i", "o", "n", "s", "/", "c", "a", "c", "h", "e">>

SetupNode == <<"a", "c", "t", "i", "o", "n", "s", "/", "s", "e", "t", "u", "p", "-", "n", "o", "d", "e">>

SetupPython == <<"a", "c", "t", "i", "o", "n", "s", "/", "s", "e", "t", "u", "p", "-", "p", "y", "t", "h", "o", "n">>

\* the places in the result of the recommendations of a type for a job
ForJob(type, name, jobName) ==
  { k \in 1..Len(ret) :
      ret[k].type = type /\ ret[k].workflow = name /\ ret[k].job = jobName }

CachingAsClaimed(wf, jobName, setupActions) ==
  /\ Cardinality(ForJob("caching", NameOf(wf), jobName)) =
       IF /\ RunsCommand(JobsIn(wf)[jobName], InstallCommands)
          /\ ~UsesAction(JobsIn(wf)[jobName], {CacheAction} \cup setupActions)
       THEN 1 ELSE 0
  /\ \A k \in ForJob("caching", NameOf(wf), jobName) :
       /\ ret[k].priority = "high"
       /\ ret[k].savingsPerRun = 3
       /\ ret[k].potentialSavings = 3 * RunsOf(wf)

CachingForEveryJob(setupActions) ==
  (OptimizationsReturned /\ DistinctNames(args.workflows)) =>
    \A i \in 1..Len(args.workflows) :
      HasJobs(args.workflows[i]) =>
        \A jobName \in DOMAIN JobsIn(args.workflows[i]) :
          CachingAsClaimed(args.workflows[i], jobName, setupActions)

\* C14, as the code has it: a job gets exactly one caching recommendation
\* (priority high, savingsPerRun 3, potentialSavings three times the
\* workflow's runs per month) when a step runs npm, yarn, pnpm or pip install
\* and no step uses actions/cache or actions/setup-node, and none otherwise;
\* other runtime-setup actions do not count as caching.
C14_CachingUnlessCacheOrSetupNode == CachingForEveryJob({SetupNode})

\* C14 as stated: any runtime-setup action, actions/setup-python included,
\* keeps the job from getting a caching recommendation.
C14_CachingUnlessCacheOrAnySetup == CachingForEveryJob({SetupNode, SetupPython})

\* C14 witness: a job that sets up Python and runs pip install gets the
\* caching recommendation, with savings of three minutes for each of more
\* than one run.
C14_Witness ==
  /\ OptimizationsReturned
  /\ Len(args.workflows) = 1
  /\ HasJobs(args.workflows[1])
  /\ DOMAIN JobsIn(args.workflows[1]) = {"test"}
  /\ RunsCommand(JobsIn(args.workflows[1])["test"], { <<"p", "i", "p", " ", "i", "n", "s", "t", "a", "l", "l">> })
  /\ UsesAction(JobsIn(args.workflows[1])["test"], {SetupPython})
  /\ Len(ret) >= 1
  /\ ret[1].type = "caching"
  /\ ret[1].job = "test"
  /\ ret[1].priority = "high"
  /\ ret[1].potentialSavings = 3 * RunsOf(args.workflows[1])
  /\ ret[1].potentialSavings > 3

\* the combination count of a job: the product of the lengths of the list
\* axes of its matrix, and none without a matrix
CombinationCount(job) ==
  IF HasMatrixStrategy(job) THEN Product(AxisLengths(MatrixOf(job))) ELSE 0

MatrixAsClaimed(wf, jobName) ==
  /\ Cardinality(ForJob("matrix", NameOf(wf), jobName)) =
       IF CombinationCount(JobsIn(wf)[jobName]) >= 6 THEN 1 ELSE 0
  /\ \A k \in ForJob("matrix", NameOf(wf), jobName) :
       /\ ret[k].potentialSavings =
            CeilInt(RMul(RMul(DurationOf(wf), <<1, 2>>), R(RunsOf(wf))))
       /\ ret[k].description[3] = CombinationCount(JobsIn(wf)[jobName])
       /\ ret[k].priority =
            IF CombinationCount(JobsIn(wf)[jobName]) >= 9 THEN "high" ELSE "medium"
       /\ CombinationCount(JobsIn(wf)[jobName]) \in {6, 7, 8} => ret[k].priority = "medium"

\* C15: a job gets a matrix recommendation exactly when its matrix has 6
\* combinations or more; the recommendation saves the ceiling of half the
\* workflow's duration times its runs per month, its description carries
\* the combination count, and its priority is high from 9 combinations on
\* and medium for 6, 7 and 8.
C15_MatrixFromSixCombinations ==
  (OptimizationsReturned /\ DistinctNames(args.workflows)) =>
    \A i \in 1..Len(args.workflows) :
      HasJobs(args.workflows[i]) =>
        \A jobName \in DOMAIN JobsIn(args.workflows[i]) :
          MatrixAsClaimed(args.workflows[i], jobName)

\* C15 witness: a 4 x 3 matrix gets a recommendation of priority high whose
\* description says 12, with savings of half the duration for every run.
C15_Witness ==
  /\ OptimizationsReturned
  /\ Len(args.workflows) = 1
  /\ HasJobs(args.workflows[1])
  /\ DOMAIN JobsIn(args.workflows[1]) = {"test"}
  /\ HasMatrixStrategy(JobsIn(args.workflows[1])["test"])
  /\ AxisLengths(MatrixOf(JobsIn(args.workflows[1])["test"])) = [node |-> 4, os |-> 3]
  /\ \E k \in ForJob("matrix", NameOf(args.workflows[1]), "test") :
       /\ ret[k].description[3] = 12
       /\ ret[k].priority = "high"
       /\ ret[k].potentialSavings = 5 * RunsOf(args.workflows[1])
       /\ ret[k].potentialSavings > 5

\* the schedule trigger of a workflow and its estimate
HasScheduleTrigger(wf) ==
  HasOwn(normalizeTriggers(Get(ParsedOf(wf), "on")), "schedule")

ScheduleEstimate(wf) ==
  estimateScheduleRunsPerMonth(Get(normalizeTriggers(Get(ParsedOf(wf), "on")), "schedule"))

\* the places in the result of the recommendations of a type for a workflow
ForWorkflow(type, name) ==
  { k \in 1..Len(ret) : ret[k].type = type /\ ret[k].workflow = name }

WeeklySavings(wf, s) == CeilInt(RMul(DurationOf(wf), R(s - 4)))

MonthlySavings(wf, s) == CeilInt(RMul(DurationOf(wf), R(s - 1)))

FrequencyAsClaimed(wf, s) ==
  /\ Cardinality(ForWorkflow("frequency", NameOf(wf))) =
       IF s >= 20 \/ (s >= 4 /\ MonthlySavings(wf, s) > 50) THEN 1 ELSE 0
  /\ \A k \in ForWorkflow("frequency", NameOf(wf)) :
       /\ s >= 20 =>
            /\ ret[k].action = << "Change to weekly schedule (4x/month)" >>
            /\ ret[k].potentialSavings = WeeklySavings(wf, s)
            /\ ret[k].priority = IF WeeklySavings(wf, s) > 500 THEN "high" ELSE "medium"
       /\ s < 20 =>
            /\ ret[k].action = << "Change to monthly schedule (1x/month)" >>
            /\ ret[k].potentialSavings = MonthlySavings(wf, s)
            /\ ret[k].priority = "low"

\* C16: a workflow with jobs and a schedule estimated at s runs a month gets
\* at most one frequency recommendation: from 20 runs on a weekly one saving
\* the ceiling of duration x (s - 4), of priority high when that is more
\* than 500 and medium otherwise; from 4 to 19 runs a monthly one of
\* priority low saving the ceiling of duration x (s - 1), only when that is
\* more than 50; below 4 runs none.
C16_FrequencyByScheduledRuns ==
  (OptimizationsReturned /\ DistinctNames(args.workflows)) =>
    \A i \in 1..Len(args.workflows) :
      (HasJobs(args.workflows[i]) /\ HasScheduleTrigger(args.workflows[i])) =>
        FrequencyAsClaimed(args.workflows[i], ScheduleEstimate(args.workflows[i]))

FrequencyCase(s, duration, count) ==
  /\ OptimizationsReturned
  /\ Len(args.workflows) = 1
  /\ HasJobs(args.workflows[1])
  /\ HasScheduleTrigger(args.workflows[1])
  /\ ScheduleEstimate(args.workflows[1]) = s
  /\ DurationOf(args.workflows[1]) = R(duration)
  /\ Cardinality(ForWorkflow("frequency", NameOf(args.workflows[1]))) = count

\* C16 witness: a daily schedule (30 runs) of a 100-minute workflow gets a
\* weekly recommendation of priority high saving 2600 minutes.
C16_Witness ==
  /\ FrequencyCase(30, 100, 1)
  /\ \E k \in 1..Len(ret) :
       /\ ret[k].type = "frequency"
       /\ ret[k].potentialSavings = 2600
       /\ ret[k].priority = "high"

\* the triggers a workflow declares, in whichever form
TriggersOf(wf) == normalizeTriggers(Get(ParsedOf(wf), "on"))

TriggeredByCommits(wf) ==
  HasOwn(TriggersOf(wf), "push") \/ HasOwn(TriggersOf(wf), "pull_request")

PathFiltered(wf) ==
  \E event \in {"push", "pull_request"} :
    \/ HasOwn(Get(TriggersOf(wf), event), "paths")
    \/ HasOwn(Get(TriggersOf(wf), event), "paths-ignore")

NamedRelease(wf) == Includes(NameOf(wf), <<"r", "e", "l", "e", "a", "s", "e">>)

\* the ceiling of duration x runsPerMonth x 0.2
FifthOfMinutes(wf) ==
  CeilInt(RMul(RMul(DurationOf(wf), R(RunsOf(wf))), <<2, 10>>))

ConditionalAsClaimed(wf) ==
  /\ Cardinality(ForWorkflow("conditional", NameOf(wf))) =
       IF FifthOfMinutes(wf) > 50 THEN 1 ELSE 0
  /\ \A k \in ForWorkflow("conditional", NameOf(wf)) :
       /\ ret[k].priority = "medium"
       /\ ret[k].potentialSavings = FifthOfMinutes(wf)

\* C17: a workflow with jobs that push or pull_request triggers, in any form
\* of declaration, without a paths or paths-ignore filter and without
\* "release" in its name gets a conditional recommendation of priority
\* medium saving the ceiling of duration x runsPerMonth x 0.2, exactly when
\* that is more than 50.
C17_ConditionalForEveryForm ==
  (OptimizationsReturned /\ DistinctNames(args.workflows)) =>
    \A i \in 1..Len(args.workflows) :
      ( /\ HasJobs(args.workflows[i])
        /\ TriggeredByCommits(args.workflows[i])
        /\ ~PathFiltered(args.workflows[i])
        /\ ~NamedRelease(args.workflows[i]) ) =>
        ConditionalAsClaimed(args.workflows[i])

\* C17 witness: a 100-minute workflow declared with the single event name
\* push runs 30 times a month, a fifth of its 3000 minutes is 600, and the
\* result holds no conditional recommendation.
C17_Witness ==
  /\ OptimizationsReturned
  /\ Len(args.workflows) = 1
  /\ HasJobs(args.workflows[1])
  /\ Get(ParsedOf(args.workflows[1]), "on") = EventName("push")
  /\ ~NamedRelease(args.workflows[1])
  /\ RunsOf(args.workflows[1]) = 30
  /\ FifthOfMinutes(args.workflows[1]) = 600
  /\ ForWorkflow("conditional", NameOf(args.workflows[1])) = {}

Supplied(name, default) ==
  IF HasOwn(args.options, name) THEN args.options.f[name].n ELSE default

\* the override when one is supplied and is not 0, else the default
SuppliedNonZero(name, default) ==
  IF HasOwn(args.options, name) /\ ~REq(args.options.f[name].n, R(0))
  THEN args.options.f[name].n
  ELSE default

\* the estimate for a sum of contributions: the commits of a month when the
\* sum is 0, and at least 1
EstimateFor(sum) ==
  Max1(IF CeilInt(sum) = 0 THEN CommitsPerMonth ELSE CeilInt(sum))

\* the estimates of workflows with a single trigger, for given values of the
\* three tunables
SingleTriggerEstimates(factor, manual, release) ==
  /\ TriggerKeys = {"pull_request"}
       => ret = EstimateFor(RCeil(RMul(R(CommitsPerMonth), factor)))
  /\ TriggerKeys = {"workflow_dispatch"} => ret = EstimateFor(manual)
  /\ TriggerKeys = {"release"} => ret = EstimateFor(release)

\* C19 as stated: every supplied override, 0 included, is the value used:
\* pull_request contributes ceil(commitsPerMonth x f), a dispatch-only
\* workflow gets m, a release trigger contributes r; the defaults apply
\* only when the override is absent.
C19_EveryOverrideUsed ==
  RunsReturned =>
    SingleTriggerEstimates(Supplied("pullRequestFactor", <<8, 10>>),
                           Supplied("manualRunsPerMonth", R(1)),
                           Supplied("releaseRunsPerMonth", R(1)))

\* C19 amended: a supplied override other than 0 is the value used; an
\* override of 0 is replaced by the default like an absent one (0.8, 1, 1).
C19_NonZeroOverrideUsed ==
  RunsReturned =>
    SingleTriggerEstimates(SuppliedNonZero("pullRequestFactor", <<8, 10>>),
                           SuppliedNonZero("manualRunsPerMonth", R(1)),
                           SuppliedNonZero("releaseRunsPerMonth", R(1)))

\* C19 witness: at 30 commits a month with pullRequestFactor 1/2 a
\* pull_request workflow is estimated at 15 runs.
C19_Witness ==
  /\ RunsReturned
  /\ TriggerKeys = {"pull_request"}
  /\ CommitsPerMonth = 30
  /\ Supplied("pullRequestFactor", <<8, 10>>) = <<1, 2>>
  /\ ret = 15

\* push for commits and pull_request are the only triggers
PushAndPullRequestOnly ==
  TriggerKeys = {"push", "pull_request"} /\ ~TagOnlyPush

\* commitsPerMonth + ceil(commitsPerMonth x pullRequestFactor)
PushAndPullRequestRuns ==
  CommitsPerMonth
    + CeilInt(RMul(R(CommitsPerMonth), SuppliedNonZero("pullRequestFactor", <<8, 10>>)))

\* no trigger is declared, or only events the estimator does not know
NothingRecognised == TriggerKeys \subseteq {"issues"}

\* C20 as stated: push for commits and pull_request alone give
\* commitsPerMonth + ceil(commitsPerMonth x pullRequestFactor); a workflow
\* without triggers, or with unrecognised ones only, gets
\* max(1, commitsPerMonth).
C20_PushPlusPullRequest ==
  RunsReturned =>
    /\ PushAndPullRequestOnly => ret = PushAndPullRequestRuns
    /\ NothingRecognised => ret = Max1(CommitsPerMonth)

\* C20 amended: push for commits and pull_request alone give
\* max(1, commitsPerMonth + ceil(commitsPerMonth x pullRequestFactor)), which
\* is 1 at 0 commits a day; a workflow without triggers, or with
\* unrecognised ones only, gets max(1, commitsPerMonth).
C20_PushPlusPullRequestAtLeastOne ==
  RunsReturned =>
    /\ PushAndPullRequestOnly => ret = Max1(PushAndPullRequestRuns)
    /\ NothingRecognised => ret = Max1(CommitsPerMonth)

\* C20 witness: push and pull_request at 0 commits a day are estimated at 1
\* run, where the sum of the two contributions is 0.
C20_Witness ==
  /\ RunsReturned
  /\ PushAndPullRequestOnly
  /\ CommitsPerMonth = 0
  /\ PushAndPullRequestRuns = 0
  /\ ret = 1

\* the categories of step names in their order, each with its keywords and
\* its weight
StepCategories ==
  << [keywords |-> { <<"t", "e", "s", "t">>, <<"e", "2", "e">> }, weight |-> 10],
     [keywords |-> { <<"b", "u", "i", "l", "d">>, <<"c", "o", "m", "p", "i", "l", "e">> }, weight |-> 5],
     [keywords |-> { <<"d", "e", "p", "l", "o", "y">>, <<"p", "u", "b", "l", "i", "s", "h">> }, weight |-> 3],
     [keywords |-> { <<"i", "n", "s", "t", "a", "l", "l">>, <<"s", "e", "t", "u", "p">> }, weight |-> 2] >>

\* the categories with a keyword in the name, whatever its case
MatchingCategories(name) ==
  { c \in 1..Len(StepCategories) :
      \E keyword \in StepCategories[c].keywords : Includes(ToLowerCase(name), keyword) }

\* the weight of the earliest matching category, and 1 without one or
\* without a name
ClaimedWeight(step) ==
  IF ~HasOwn(step, "name") \/ MatchingCategories(step.f["name"].s) = {}
  THEN 1
  ELSE StepCategories[CHOOSE c \in MatchingCategories(step.f["name"].s) :
                        \A d \in MatchingCategories(step.f["name"].s) : c <= d].weight

RECURSIVE ClaimedWeights(_)
ClaimedWeights(steps) ==
  IF steps = <<>> THEN 0 ELSE ClaimedWeight(Head(steps)) + ClaimedWeights(Tail(steps))

\* one job, without a strategy, with a list of steps
OneJobOfSteps ==
  /\ HasSingleJob
  /\ ~HasOwn(SingleJob, "strategy")
  /\ Get(SingleJob, "steps").t = "array"

\* C21: every step adds the weight of the earliest category, in the order
\* {test, e2e} 10, {build, compile} 5, {deploy, publish} 3, {install,
\* setup} 2, that has a keyword in its name, whatever the case of the name,
\* and 1 when no category matches or the step has no name or an empty one.
C21_FirstCategoryWins ==
  (DurationReturned /\ OneJobOfSteps) =>
    ret = CappedAt60(5 + ClaimedWeights(SingleJob.f["steps"].items))

\* C21 witness: the steps "Setup tests" and an unnamed one give 5 + 10 + 1.
C21_Witness ==
  /\ DurationReturned
  /\ OneJobOfSteps
  /\ Len(SingleJob.f["steps"].items) = 2
  /\ Get(SingleJob.f["steps"].items[1], "name") = Str(<<"S", "e", "t", "u", "p", " ", "t", "e", "s", "t", "s">>)
  /\ ~HasOwn(SingleJob.f["steps"].items[2], "name")
  /\ ret = 16

(***************************************************************************)
(* Claims about the rules of a cron field.                                 *)
(***************************************************************************)
IsNumeral(s) == s # <<>> /\ \A i \in 1..Len(s) : s[i] \in Digits

IsRange(s) ==
  /\ Len(Split(s, "-")) = 2
  /\ IsNumeral(Split(s, "-")[1])
  /\ IsNumeral(Split(s, "-")[2])

RangeStart(s) == DigitsValue(Split(s, "-")[1])

RangeEnd(s) == DigitsValue(Split(s, "-")[2])

\* base/step with a numeral for the step
IsStepped(s) == Len(Split(s, "/")) = 2 /\ IsNumeral(Split(s, "/")[2])

BaseOf(s) == Split(s, "/")[1]

StepValue(s) == DigitsValue(Split(s, "/")[2])

\* a part the rules give a count for; reversed tells whether a stepped range
\* whose end is below its start is one of them
RuledPart(s, reversed) ==
  \/ s \in { <<>>, <<"*">> }
  \/ IsNumeral(s)
  \/ IsRange(s) /\ RangeStart(s) <= RangeEnd(s)
  \/ /\ IsStepped(s)
     /\ StepValue(s) > 0
     /\ \/ BaseOf(s) = <<"*">>
        \/ IsRange(BaseOf(s)) /\ (reversed \/ RangeStart(BaseOf(s)) <= RangeEnd(BaseOf(s)))

\* the count the rules give for a part
RuledCount(s, maxSlots) ==
  IF IsStepped(s)
  THEN IF BaseOf(s) = <<"*">>
       THEN CeilInt(<<maxSlots, StepValue(s)>>)
       ELSE CeilInt(<<RangeEnd(BaseOf(s)) - RangeStart(BaseOf(s)) + 1, StepValue(s)>>)
  ELSE IF IsRange(s) THEN RangeEnd(s) - RangeStart(s) + 1
  ELSE 1

RECURSIVE RuledCounts(_, _)
RuledCounts(parts, maxSlots) ==
  IF parts = <<>> THEN 0
  ELSE RuledCount(Head(parts), maxSlots) + RuledCounts(Tail(parts), maxSlots)

RuledField(field, reversed) ==
  \A i \in 1..Len(Split(field, ",")) : RuledPart(Split(field, ",")[i], reversed)

\* C22 as stated: on every field built from '*', values, ranges, steps and
\* comma lists the count is 1 for '*', the empty field and a value, the sum
\* of the counts of the parts for a list, ceil(maxSlots / s) for '*/s' with
\* s > 0, ceil((b - a + 1) / s) for 'a-b/s', and b - a + 1 for 'a-b' with
\* a <= b.
C22_SlotsFollowRules ==
  (FieldReturned /\ RuledField(args.field, TRUE)) =>
    REq(ret, R(RuledCounts(Split(args.field, ","), args.maxSlots)))

\* C22 amended: the same, with 'a-b/s' counted as ceil((b - a + 1) / s) only
\* for a <= b; a stepped range whose end is below its start counts 1.
C22_SlotsFollowRulesInOrder ==
  FieldReturned =>
    /\ RuledField(args.field, FALSE) =>
         REq(ret, R(RuledCounts(Split(args.field, ","), args.maxSlots)))
    /\ ( /\ IsStepped(args.field)
         /\ StepValue(args.field) > 0
         /\ IsRange(BaseOf(args.field))
         /\ RangeEnd(BaseOf(args.field)) < RangeStart(BaseOf(args.field)) ) =>
         REq(ret, R(1))

\* C22 witness: the list '0-15/2,*/5' of an hour field counts 8 + 5.
C22_Witness ==
  /\ FieldReturned
  /\ args.field = <<"0", "-", "1", "5", "/", "2", ",", "*", "/", "5">>
  /\ args.maxSlots = 24
  /\ ret = R(13)

(***************************************************************************)
(* Claims about a duration of zero                                         *)
(***************************************************************************)
\* the workflow has no jobs: the entry is absent, null or an empty map
NoJobs(workflow) ==
  \/ ~Truthy(JobsOf(workflow))
  \/ JobsOf(workflow).t = "object" /\ DOMAIN JobsOf(workflow).f = {}

\* the job's matrix has an axis that is an empty list
HasEmptyAxis(job) ==
  /\ HasMatrixStrategy(job)
  /\ MatrixOf(job).t = "object"
  /\ \E k \in DOMAIN MatrixOf(job).f :
        MatrixOf(job).f[k].t = "array" /\ MatrixOf(job).f[k].items = <<>>

EveryJobHasEmptyAxis(workflow) ==
  \A k \in DOMAIN JobsOf(workflow).f : HasEmptyAxis(JobsOf(workflow).f[k])

\* C23 as stated: the duration is 0 exactly when the workflow has no jobs,
\* and is positive for every workflow with at least one job
C23_ZeroOnlyWithoutJobs ==
  DurationReturned =>
    /\ ret = 0 <=> NoJobs(args.workflow)
    /\ ~NoJobs(args.workflow) => ret > 0

\* C23: the duration is 0 exactly when the workflow has no jobs or every one
\* of its jobs has a matrix with an empty list axis; with a job whose matrix
\* has no empty axis the duration is at least the 5 base minutes
C23_ZeroWithoutJobsOrCombinations ==
  DurationReturned =>
    /\ ret = 0 <=>
         NoJobs(args.workflow) \/ EveryJobHasEmptyAxis(args.workflow)
    /\ ~(NoJobs(args.workflow) \/ EveryJobHasEmptyAxis(args.workflow)) =>
         ret >= BASE_JOB_MINUTES

\* C23 witness: a workflow of one job with steps whose matrix has an empty
\* node axis lasts 0 minutes
C23_Witness ==
  /\ DurationReturned
  /\ HasSingleJob
  /\ HasEmptyAxis(SingleJob)
  /\ Get(SingleJob, "steps").t = "array"
  /\ Len(Get(SingleJob, "steps").items) > 0
  /\ ret = 0

(***************************************************************************)
(* Claims about the independence of the detectors                          *)
(***************************************************************************)
\* the record wf with the jobs entry of its parsed workflow set to jobs
WithJobs(wf, jobs) == With(wf, "parsed", With(ParsedOf(wf), "jobs", jobs))

\* the recommendations of the workflow-level detectors, in order
WorkflowLevel(recommendations) ==
  SelectSeq(recommendations, LAMBDA r : r.type \in {"frequency", "conditional"})

JobLevel(recommendations) ==
  SelectSeq(recommendations, LAMBDA r : r.type \in {"caching", "matrix"})

\* the recommendations for the record alone with the given jobs entry
AloneWithJobs(wf, jobs) ==
  analyzeOptimizations(<< WithJobs(wf, jobs) >>, args.commitsPerDay)

NoJobsEntry(wf) == ~HasOwn(ParsedOf(wf), "jobs")

\* C24 as stated: a record without a jobs entry receives the frequency and
\* conditional recommendations of the same record with a jobs entry that
\* triggers no job-level detector (an empty map, a job of one checkout step)
C24_WorkflowLevelIgnoresJobs ==
  (OptimizationsReturned /\ Len(args.workflows) = 1
     /\ NoJobsEntry(args.workflows[1])) =>
    \A jobs \in { EmptyObj, Literal([test |-> PlainJob]) } :
      /\ JobLevel(AloneWithJobs(args.workflows[1], jobs)) = <<>>
      /\ WorkflowLevel(ret) =
           WorkflowLevel(AloneWithJobs(args.workflows[1], jobs))

\* C24 case: a daily scheduled workflow without a jobs entry receives no
\* recommendation, and receives a frequency recommendation once it has an
\* empty jobs map
C24_Witness ==
  /\ OptimizationsReturned
  /\ Len(args.workflows) = 1
  /\ NoJobsEntry(args.workflows[1])
  /\ HasScheduleTrigger(args.workflows[1])
  /\ ret = <<>>
  /\ Len(AloneWithJobs(args.workflows[1], EmptyObj)) = 1
  /\ AloneWithJobs(args.workflows[1], EmptyObj)[1].type = "frequency"

(***************************************************************************)
(* Claims about the fields of a recommendation                             *)
(***************************************************************************)
RecommendationTypes == { "caching", "matrix", "frequency", "conditional" }

Priorities == { "low", "medium", "high" }

\* a record of the call with the recommendation's workflow name lasts 0
\* minutes
OfZeroDuration(r) ==
  \E i \in 1..Len(args.workflows) :
    /\ NameOf(args.workflows[i]) = r.workflow
    /\ DurationOf(args.workflows[i]) = R(0)

\* the recommendations without a savings threshold: matrix, weekly schedule
Unthresholded(r) ==
  \/ r.type = "matrix"
  \/ r.type = "frequency"
       /\ r.action = << "Change to weekly schedule (4x/month)" >>

\* C25 as stated: every recommendation has positive savings, one of the four
\* types and one of the three priorities
C25_PositiveSavings ==
  OptimizationsReturned =>
    \A k \in 1..Len(ret) :
      /\ ret[k].potentialSavings > 0
      /\ ret[k].type \in RecommendationTypes
      /\ ret[k].priority \in Priorities

\* C25: every recommendation has one of the four types, one of the three
\* priorities and savings that are not negative; the savings are 0 exactly
\* for the matrix and weekly-schedule recommendations of a workflow whose
\* estimatedDuration is 0
C25_SavingsZeroOnlyForZeroDuration ==
  OptimizationsReturned =>
    \A k \in 1..Len(ret) :
      /\ ret[k].potentialSavings >= 0
      /\ ret[k].potentialSavings = 0 <=>
           Unthresholded(ret[k]) /\ OfZeroDuration(ret[k])
      /\ ret[k].type \in RecommendationTypes
      /\ ret[k].priority \in Priorities

\* C25 witness: a workflow of estimatedDuration 0 with a daily schedule
\* receives a weekly-schedule recommendation of priority medium saving 0
\* minutes
C25_Witness ==
  /\ OptimizationsReturned
  /\ \E k \in 1..Len(ret) :
       /\ ret[k].type = "frequency"
       /\ OfZeroDuration(ret[k])
       /\ ret[k].potentialSavings = 0
       /\ ret[k].priority = "medium"

(***************************************************************************)
(* Claims about the consistency of the cost report                         *)
(***************************************************************************)
\* withinLimit, overage and cost of a tier say the same
TierConsistent(tier) ==
  /\ tier.withinLimit <=> tier.overage = 0
  /\ tier.withinLimit <=> REq(tier.cost, R(0))

BreakdownMinutes(breakdown) ==
  [i \in 1..Len(breakdown) |-> breakdown[i].minutesPerMonth]

\* C29: in every cost report each tier is within its limit exactly when its
\* overage is 0 and exactly when its cost is 0, the team overage is at most
\* the free overage, within target implies within stretch implies within the
\* free limit implies within the team limit, and the total minutes are the
\* sum of the minutes of the breakdown
C29_ReportConsistent ==
  CostsReturned =>
    /\ TierConsistent(ret.tiers.free)
    /\ TierConsistent(ret.tiers.team)
    /\ ret.tiers.team.overage <= ret.tiers.free.overage
    /\ ret.budgets.withinTarget => ret.budgets.withinStretch
    /\ ret.budgets.withinStretch => ret.tiers.free.withinLimit
    /\ ret.tiers.free.withinLimit => ret.tiers.team.withinLimit
    /\ ret.minutesPerMonth = SumOf(BreakdownMinutes(ret.breakdown))

\* C29 witness: a report of two workflows whose total is exactly the team
\* limit: over the free limit with a cost, within the team limit at no cost
C29_Witness ==
  /\ CostsReturned
  /\ Len(ret.breakdown) = 2
  /\ ret.minutesPerMonth = TEAM_TIER_MINUTES
  /\ ~ret.tiers.free.withinLimit
  /\ ret.tiers.free.overage = TEAM_TIER_MINUTES - FREE_TIER_MINUTES
  /\ REq(ret.tiers.free.cost, R(8))
  /\ ret.tiers.team.withinLimit
  /\ ret.tiers.team.overage = 0
  /\ ~ret.budgets.withinStretch

(***************************************************************************)
(* Claims about the commit cadence: the run estimator and the cost report  *)
(* are called on their inputs, and the result is compared with the result  *)
(* for every cadence that is at least the one of the call.                 *)
(***************************************************************************)
InitCadence == InitRuns \/ InitCosts

NextCadence == ReturnRuns \/ ReturnCosts

SpecCadence == InitCadence /\ [][NextCadence]_vars

\* the cadences that are at least the one of the call
AtLeastCalled == { c \in CommitRates : RLe(args.commitsPerDay, c) }

\* C30: the estimated runs per month do not decrease when the commits per
\* day increase, triggers and options fixed, and neither do the total
\* minutesPerMonth of the cost report nor the runs of any of its workflows
C30_MonotoneInCadence ==
  /\ RunsReturned =>
       \A c \in AtLeastCalled :
         ret <= estimateWorkflowRunsPerMonth(args.workflow, c, args.options)
  /\ CostsReturned =>
       \A c \in AtLeastCalled :
         /\ ret.minutesPerMonth <=
              calculateMonthlyCosts(args.workflows, c, args.options).minutesPerMonth
         /\ \A i \in 1..Len(ret.breakdown) :
              ret.breakdown[i].runsPerMonth <=
                calculateMonthlyCosts(args.workflows, c, args.options)
                  .breakdown[i].runsPerMonth

\* C30 witness: a report of two workflows at half a commit a day whose total
\* is greater at one commit a day
C30_Witness ==
  /\ CostsReturned
  /\ Len(args.workflows) = 2
  /\ args.commitsPerDay = <<2, 4>>
  /\ ret.minutesPerMonth > 0
  /\ ret.minutesPerMonth <
       calculateMonthlyCosts(args.workflows, <<4, 4>>, args.options).minutesPerMonth

(***************************************************************************)
(* Claims about the runs per month of the two reports                      *)
(***************************************************************************)
BothReturned == pc = "both returned"

\* the runs per month analyzeOptimizations computes for a workflow record
RunsUsedFor(wf) ==
  estimateWorkflowRunsPerMonth(ParsedOf(wf), args.commitsPerDay, EmptyObj)

\* C28 as stated: for every workflow the runs per month analyzeOptimizations
\* uses are the runsPerMonth of the breakdown of calculateMonthlyCosts for
\* the same workflows, commit rate and tuning options, and the savings of
\* every caching recommendation are 3 times the breakdown's runsPerMonth of
\* its workflow
C28_SameRunsPerMonth ==
  BothReturned =>
    /\ \A i \in 1..Len(args.workflows) :
         RunsUsedFor(args.workflows[i]) = ret[1].breakdown[i].runsPerMonth
    /\ \A k \in 1..Len(ret[2]) :
         ret[2][k].type = "caching" =>
           \E i \in 1..Len(args.workflows) :
             /\ ret[1].breakdown[i].name.s = ret[2][k].workflow
             /\ ret[2][k].potentialSavings =
                  CACHING_SAVINGS_PER_RUN * ret[1].breakdown[i].runsPerMonth

\* C28 case: a pull_request workflow at one commit a day with
\* pullRequestFactor 0.5 runs 15 times a month in the breakdown, and its
\* caching recommendation saves 3 x 24 minutes
C28_Witness ==
  /\ BothReturned
  /\ Len(args.workflows) = 1
  /\ Get(ParsedOf(args.workflows[1]), "on") = Literal([pull_request |-> Null])
  /\ args.commitsPerDay = <<4, 4>>
  /\ Get(args.options, "pullRequestFactor") = Num(<<1, 2>>)
  /\ ret[1].breakdown[1].runsPerMonth = 15
  /\ Len(ret[2]) = 1
  /\ ret[2][1].type = "caching"
  /\ ret[2][1].potentialSavings = 72

\* without tuning options the two agree
C28_SameRunsWithoutOptions ==
  (BothReturned /\ args.options = EmptyObj) => C28_SameRunsPerMonth

(***************************************************************************)
(* Claims about the maturity level                                         *)
(***************************************************************************)
MaturityReturned == pc = "returned" /\ fn = "detect"

MaturityLevels == { "minimal", "bootstrap", "development", "production-ready" }

\* the conditions of the levels on the statistics of the call
IsMinimal == args.stats.totalSourceFiles = 0

IsBootstrap ==
  /\ 1 <= args.stats.totalSourceFiles
  /\ args.stats.totalSourceFiles < MIN_BOOTSTRAP_FILES

IsProductionReady ==
  /\ args.stats.totalSourceFiles >= MIN_PRODUCTION_FILES
  /\ args.stats.testFiles >= MIN_PRODUCTION_TESTS
  /\ (args.stats.hasDocumentation \/ args.stats.hasDependencies)

RECURSIVE ParsedFrom(_, _)
ParsedFrom(files, i) ==
  IF i > Len(files) THEN <<>>
  ELSE (IF files[i].outcome = "parsed"
        THEN << ParsedRecord(FileNames[i], files[i].parsed) >>
        ELSE <<>>)
       \o ParsedFrom(files, i + 1)

ParsedInOrder == ParsedFrom(args.files, 1)

\* the run went through the report and ended with process.exit(0)
ExitedWithSuccess == pc = "exited" /\ ret.exit = <<0>>

AfterParsing == pc \in { "costs", "optimizations", "report", "exit" } \/ ExitedWithSuccess

\* the order of the steps; the loop over the files stays in its step
StepOrder ==
  { <<"discover", "parse">>, <<"parse", "costs">>, <<"costs", "optimizations">>,
    <<"optimizations", "report">>, <<"report", "exit">>, <<"exit", "exited">>,
    <<"discover", "exited">>, <<"discover", "catch">>, <<"catch", "exited">> }

\* the core sees the parsed files only, in discovery order
OnlyParsedReachCore ==
  /\ AfterParsing => ret.workflows = ParsedInOrder
  /\ \A i \in 1..Len(ret.workflows) :
       Get(ret.workflows[i], "estimatedDuration") =
         Num(R(estimateWorkflowDuration(Get(ret.workflows[i], "parsed"))))
  /\ ExitedWithSuccess =>
       /\ ret.report[1].workflows = ParsedInOrder
       /\ ret.report[1].commitStats = args.commitsPerDay
       /\ CostsOf(ret.report[1].costs) =
            calculateMonthlyCosts(ParsedInOrder, args.commitsPerDay, EmptyObj)
       /\ OptimizationsOf(ret.report[1].optimizations) =
            analyzeOptimizations(ParsedInOrder, args.commitsPerDay)

\* status 1 needs an empty directory or an escaped error; a status is 0 or 1
ExitStatusExplained ==
  /\ ret.exit = <<1>> => (args.files = <<>> \/ args.discoverThrows)
  /\ pc = "exited" <=> ret.exit # <<>>
  /\ ret.exit \in { <<>>, <<0>>, <<1>> }

\* C26: a file whose read, parse or estimate fails is skipped with a warning
\* and only the parsed files reach the core, in discovery order; the steps
\* run in the order discover, parse, commit frequency, costs, optimizations,
\* report, exit; every run ends, with status 0 when a file was discovered
\* and no error escaped, and with status 1 only otherwise
C26_PipelineInOrder ==
  /\ [](OnlyParsedReachCore /\ ExitStatusExplained)
  /\ [][pc' # pc => <<pc, pc'>> \in StepOrder]_vars
  /\ <>(pc = "exited")
  /\ (args.files # <<>> /\ ~args.discoverThrows) ~> ExitedWithSuccess

\* C26 witness: of two files the first cannot be read and the second gives
\* a workflow; the run ends with status 0 and a report on the second only
C26_Witness ==
  /\ ExitedWithSuccess
  /\ Len(args.files) = 2
  /\ args.files[1].outcome = "read fails"
  /\ args.files[2].outcome = "parsed"
  /\ ret.warnings = << FileNames[1] >>
  /\ Len(ret.report[1].workflows) = 1
  /\ Get(ret.report[1].workflows[1], "name") = Str(FileNames[2])
  /\ Len(CostsOf(ret.report[1].costs).breakdown) = 1

=============================================================================
